---- MODULE Spec2Model ----
\* A model of the brewing control engine (components/brew-engine/brew-engine.cpp):
\* the schedule compiler, start()/stop(), the dispatcher commands that act on a
\* run, and the three per-brew tasks (control loop, PID loop, output loop) as
\* FreeRTOS tasks that run concurrently with the dispatcher.
\*
\* Representation:
\*   - time is in whole seconds since the anchor of the clock (system_clock);
\*   - temperatures are whole degrees (the code uses float);
\*   - a std::optional is a record [has, value];
\*   - the std::map executionSteps with keys 0..n-1 is a sequence: key k is
\*     position k+1;
\*   - a task is a record of its position (pc) and its local variables; tasks are
\*     kept in creation order, an exited task keeps its slot with pc = "done".
EXTENDS Integers, Sequences, FiniteSets, TLC

\* ---------------------------------------------------------------- bounds

\* start() calls that create tasks, over one behaviour
MaxStarts == 1
\* the clock is observed every ClockStep seconds
ClockStep == 60
\* the clock stops advancing here
MaxTime == 180

\* ---------------------------------------------------------------- configuration

\* settings of the engine (readSettings): the margin of the Overtime test, the
\* boost threshold in percent of the step's target, the sub-step interval in seconds
tempMargin == 1
boostModeUntil == 90
stepInterval == 60

\* temperatures the read loop can report (whole degrees): the boost threshold of
\* a 64 degree step, and 64 less and not less tempMargin; a run starts at 50
Temps == {57, 63, 64}
\* outputs of the clamped PID controller (setMin(0), setMax(100))
PidOutputs == {0, 40, 100}
\* values the dispatcher can be asked to set as overrides
OverrideTemps == {63}
OverrideOutputs == {30}

\* A float that is not a number (0.0 / 0): every comparison with it is false and
\* every sum with it is not a number.
NaN == -9999
FLess(a, b) == a # NaN /\ b # NaN /\ a < b
FAtLeast(a, b) == a # NaN /\ b # NaN /\ a >= b
FAtMost(a, b) == a # NaN /\ b # NaN /\ a <= b
FMinus(a, b) == IF a = NaN \/ b = NaN THEN NaN ELSE a - b

NoValue == [has |-> FALSE, value |-> 0]
Some(v) == [has |-> TRUE, value |-> v]

\* the response of processCommand: success and message as the handler leaves them
OkResponse == [success |-> TRUE, message |-> ""]
Failure(message) == [success |-> FALSE, message |-> message]

\* mashSchedules: name -> schedule. "Mash" is one extended, boosted ramp with a
\* hold; "Boil" is a direct step (no ramp, no extend) with a hold. A Start
\* command can also carry "" (a null selectedMashSchedule) or "Gone" (a name
\* that is not in mashSchedules).
MashStepRec(temp, stepTime, time, extend, boost) ==
    [temperature |-> temp, stepTime |-> stepTime, time |-> time,
     extendStepTimeIfNeeded |-> extend, allowBoost |-> boost]

mashSchedules ==
    [n \in {"Mash", "Boil"} |->
        IF n = "Mash"
        THEN [boil |-> FALSE,
              steps |-> << MashStepRec(64, 1, 1, TRUE, TRUE) >>,
              notifications |-> << [timeFromStart |-> 1] >>]
        ELSE [boil |-> TRUE,
              steps |-> << MashStepRec(100, 0, 1, FALSE, FALSE) >>,
              notifications |-> << >>]]

\* ---------------------------------------------------------------- state

VARIABLES
    now,                        \* system_clock::now(), seconds
    temperature,                \* instance->temperature, written by the read loop
    targetTemperature,
    controlRun, inOverTime, boostStatus, statusText,
    overrideTargetTemperature,  \* optional
    manualOverrideOutput,       \* optional
    resetPitTime,
    selectedMashScheduleName,
    boilRun,
    executionSteps,             \* sequence of ExecutionStep, key k at position k+1
    notifications,              \* sequence of Notification
    currentMashStep,
    pidOutput,
    pidLoopTime,
    invertOutputs,
    heaters,                    \* sequence of Heater, in preference order
    gpio,                       \* level of each heater's pin
    ctlTasks, pidTasks, outTasks,
    aborted,                    \* the firmware aborted (uncaught std::out_of_range)
    sensors,                    \* std::map sensors: key -> TemperatureSensor*
    sensorObjs,                 \* the TemperatureSensor objects, by pointer
    skipTempLoop,               \* the latch that makes the read loop skip its cycle
    readTask,                   \* the read loop: position and locals
    disp,                       \* the dispatcher inside a sensor command
    response,                   \* success and message of the response being built
    nvs,                        \* the settings store: key -> entry
    nvsOpen,                    \* the handle opened by SettingsManager::Init is usable
    lastRead,                   \* the last SettingsManager::Read: its default and result
    sinceReset,                 \* FactoryReset ran and no setting was written since
    lastWrite,                  \* the SettingsManager::Write that ran last, if no
                                \* other call of the manager followed it
    sessionActive,              \* StatisticsManager: a session is being recorded
    currentSessionId,
    sessionStartTime,
    currentSessionData,         \* the data points pushed in the current session
    statNvs,                    \* the settings under the statistics manager's keys
    maxRequested,               \* the argument of the last SetMaxSessions call
    savedSchedule,              \* mashSchedules: the schedule saved as "Saved"
    stir,                       \* stirRun, stirStatusText and the stir settings
    stirTasks,                  \* the stir tasks created, each with its position
    stirPin,                    \* level of stir_PIN
    devices,                    \* the devices added to the SPI and one-wire buses
    rtdSensors                  \* std::vector rtdSensors: the max31865_t on the heap

plantVars == << stir, stirTasks, stirPin, devices, rtdSensors >>

vars == << now, temperature, targetTemperature, controlRun, inOverTime, boostStatus,
           statusText, overrideTargetTemperature, manualOverrideOutput, resetPitTime,
           selectedMashScheduleName, boilRun, executionSteps, notifications,
           currentMashStep, pidOutput, pidLoopTime, invertOutputs, heaters, gpio,
           ctlTasks, pidTasks, outTasks, aborted,
           sensors, sensorObjs, skipTempLoop, readTask, disp, response,
           nvs, nvsOpen, lastRead, sinceReset, lastWrite,
           sessionActive, currentSessionId, sessionStartTime, currentSessionData,
           statNvs, maxRequested, savedSchedule, plantVars >>

sensorVars == << sensors, sensorObjs, skipTempLoop, readTask, disp >>
statVars == << sessionActive, currentSessionId, sessionStartTime, currentSessionData,
              statNvs, maxRequested >>
settingsVars == << nvs, nvsOpen, lastRead, sinceReset, lastWrite, statVars, savedSchedule,
                  plantVars >>
auxVars == << sensorVars, response, settingsVars >>

engineVars == << targetTemperature, controlRun, inOverTime, boostStatus, statusText,
                 overrideTargetTemperature, manualOverrideOutput, resetPitTime,
                 selectedMashScheduleName, boilRun, executionSteps, notifications,
                 currentMashStep, pidOutput >>

gpioHigh == IF invertOutputs THEN 0 ELSE 1
gpioLow == IF invertOutputs THEN 1 ELSE 0

\* ---------------------------------------------------------------- schedule compiler

\* ExecutionStep. Its float temperature is temperature + part / of degrees:
\* temperature is the whole degrees; part / of is the rest, which is not zero
\* only in an intermediate sub-step of a ramp; the fraction is kept in lowest
\* terms, one record for one float. The control loop is run on schedules whose
\* ramps have one sub-step, where part = 0.
RECURSIVE GCD(_, _)
GCD(a, b) == IF b = 0 THEN a ELSE GCD(b, a % b)

SubStep(time, temp, part, of, extend, boost) ==
    [time |-> time, temperature |-> temp,
     part |-> part \div GCD(of, part), of |-> of \div GCD(of, part),
     extendIfNeeded |-> extend, allowBoost |-> boost]

ExecStep(time, temp, extend, boost) ==
    SubStep(time, temp, 0, 1, extend, boost)

Abs(x) == IF x < 0 THEN -x ELSE x

\* the number of intervals of the ramp, not one less
SubStepsNotOneLess(step, stepTime) ==
    IF step.allowBoost /\ boostModeUntil > 0
    THEN 1
    ELSE LET n == (stepTime * 60) \div stepInterval
         IN IF n < 1 THEN 1 ELSE n

\* loadSchedule: number of sub-steps of a ramp of stepTime minutes
SubStepsInStep(step, stepTime) ==
    IF step.allowBoost /\ boostModeUntil > 0
    THEN 1
    ELSE LET n == ((stepTime * 60) \div stepInterval) - 1
         IN IF n < 1 THEN 1 ELSE n

\* loadSchedule: the inner loop over j of a ramp of k sub-steps. acc is the list
\* so far. Temperatures inside the ramp are counted in k-ths of a degree, which
\* makes tempDiffPerStep * (j + 1) exact: subStepTemp is the sub-step's
\* temperature and prevStepTemp the temperature of the sub-step inserted last in
\* this ramp (0 before the first), both in k-ths.
RECURSIVE RampSubSteps(_, _, _, _, _, _, _)
RampSubSteps(j, k, step, prevTime, prevTemp, prevStepTemp, acc) ==
    IF j >= k
    THEN [steps |-> acc, prevStepTemp |-> prevStepTemp \div k]
    ELSE LET subStepTemp == prevTemp * k + (step.temperature - prevTemp) * (j + 1)
             boost == step.allowBoost /\ boostModeUntil > 0
             extend == (j = k - 1) /\ step.extendStepTimeIfNeeded
             execStep == SubStep(prevTime + (j + 1) * stepInterval,
                                 subStepTemp \div k, subStepTemp % k, k, extend, boost)
             diff == Abs(subStepTemp - prevStepTemp)
         IN IF diff > 1 * k \/ j = k - 1
            THEN RampSubSteps(j + 1, k, step, prevTime, prevTemp, subStepTemp,
                              Append(acc, execStep))
            ELSE RampSubSteps(j + 1, k, step, prevTime, prevTemp, prevStepTemp, acc)

\* loadSchedule: the loop over schedule->steps. st carries steps, prevTime,
\* prevTemp and extendNotifications.
RECURSIVE CompileSteps(_, _, _)
CompileSteps(steps, i, st) ==
    IF i > Len(steps)
    THEN st
    ELSE LET step == steps[i]
             ramped ==
                 IF step.stepTime > 0 \/ step.extendStepTimeIfNeeded
                 THEN LET stepTime == IF step.stepTime = 0 THEN 1 ELSE step.stepTime
                          ext == IF step.stepTime = 0 THEN 60 ELSE 0
                          r == RampSubSteps(0, SubStepsInStep(step, stepTime), step,
                                            st.prevTime, st.prevTemp, 0, st.steps)
                      IN [steps |-> r.steps,
                          prevTime |-> st.prevTime + stepTime * 60,
                          prevTemp |-> r.prevStepTemp,
                          extendNotifications |-> st.extendNotifications + ext]
                 ELSE [steps |-> Append(st.steps,
                                        ExecStep(st.prevTime + 10, step.temperature,
                                                 step.extendStepTimeIfNeeded, FALSE)),
                       prevTime |-> st.prevTime + 10,
                       prevTemp |-> step.temperature,
                       extendNotifications |-> st.extendNotifications]
             holdEndTime == ramped.prevTime + step.time * 60
         IN CompileSteps(steps, i + 1,
                [steps |-> Append(ramped.steps,
                                  ExecStep(holdEndTime, step.temperature, FALSE, FALSE)),
                 prevTime |-> holdEndTime,
                 prevTemp |-> step.temperature,
                 extendNotifications |-> ramped.extendNotifications])

\* loadSchedule: the compiled list and notifications of schedule sched, started
\* at time t0 with the process at temperature temp0.
LoadSchedule(sched, t0, temp0) ==
    LET st == CompileSteps(sched.steps, 1,
                  [steps |-> << ExecStep(t0, temp0, FALSE, FALSE) >>,
                   prevTime |-> t0, prevTemp |-> temp0, extendNotifications |-> 0])
    IN [executionSteps |-> st.steps,
        notifications |->
            [n \in 1..Len(sched.notifications) |->
                [timeFromStart |-> sched.notifications[n].timeFromStart
                                       + (st.extendNotifications \div 60),
                 timePoint |-> t0 + sched.notifications[n].timeFromStart * 60
                                  + st.extendNotifications,
                 done |-> FALSE]],
        boilRun |-> sched.boil]

\* ---------------------------------------------------------------- tasks

\* The control loop's iteration is three steps of its task, so that a command of
\* the dispatcher can fall between them: the while test ("check"), the body up
\* to the decision to advance ("eval"), and the rest of the body ("commit").
NewCtl == [pc |-> "init", now |-> 0, gotoNextStep |-> FALSE, resetPIDNextStep |-> FALSE,
           prevTemperature |-> 0, boostUntil |-> 0]
DoneCtl == [pc |-> "done", now |-> 0, gotoNextStep |-> FALSE, resetPIDNextStep |-> FALSE,
            prevTemperature |-> 0, boostUntil |-> 0]

NewPid == [pc |-> "init", totalWattage |-> 0, outputPercent |-> 0, outputWatt |-> 0, i |-> 0]
DonePid == [pc |-> "done", totalWattage |-> 0, outputPercent |-> 0, outputWatt |-> 0, i |-> 0]

NewOut == [pc |-> "init"]
DoneOut == [pc |-> "done"]

Alive(tasks) == {t \in DOMAIN tasks : tasks[t].pc # "done"}

\* ---------------------------------------------------------------- start and stop

\* BrewEngine::stop
Stop ==
    /\ controlRun' = FALSE
    /\ boostStatus' = "Off"
    /\ inOverTime' = FALSE
    /\ statusText' = "Idle"

\* BrewEngine::start, called with selectedMashScheduleName already set to name
Start(name) ==
    IF controlRun
    THEN UNCHANGED << controlRun, inOverTime, boostStatus, overrideTargetTemperature,
                      executionSteps, notifications, boilRun, currentMashStep, statusText,
                      ctlTasks, pidTasks, outTasks >>
    ELSE /\ controlRun' = TRUE
         /\ inOverTime' = FALSE
         /\ boostStatus' = "Off"
         /\ overrideTargetTemperature' = NoValue
         /\ IF name # ""
            THEN /\ IF name \in DOMAIN mashSchedules
                    THEN LET l == LoadSchedule(mashSchedules[name], now, temperature)
                         IN /\ executionSteps' = l.executionSteps
                            /\ notifications' = l.notifications
                            /\ boilRun' = l.boilRun
                    ELSE /\ executionSteps' = << >>
                         /\ UNCHANGED << notifications, boilRun >>
                 /\ currentMashStep' = 1
                 /\ ctlTasks' = Append(ctlTasks, NewCtl)
            ELSE /\ executionSteps' = << >>
                 /\ boilRun' = (targetTemperature >= 100)
                 /\ UNCHANGED << notifications, currentMashStep, ctlTasks >>
         /\ pidTasks' = Append(pidTasks, NewPid)
         /\ outTasks' = Append(outTasks, NewOut)
         /\ statusText' = "Running"

\* ---------------------------------------------------------------- dispatcher

\* everything a command of the runner leaves alone outside the engine and the
\* statistics manager
RunnerFrame ==
    UNCHANGED << sensorVars, nvs, nvsOpen, lastRead, sinceReset, lastWrite, savedSchedule, plantVars >>

\* processCommand "Start", the engine's part: the schedule name and start();
\* at most limit calls of start() create tasks
StartRequest(name, limit) ==
    /\ ~aborted
    /\ response' = OkResponse
    /\ RunnerFrame
    /\ controlRun \/ Len(pidTasks) < limit
    /\ selectedMashScheduleName' = name
    /\ Start(name)
    /\ UNCHANGED << now, temperature, targetTemperature, manualOverrideOutput, resetPitTime,
                    pidOutput, pidLoopTime, invertOutputs, heaters, gpio, aborted >>

\* processCommand "Start" as the engine sees it. The session the handler opens
\* in the statistics manager is state that nothing in the engine reads: it is
\* left aside here and is part of CmdStartRecorded.
CmdStartUpTo(name, limit) == StartRequest(name, limit) /\ UNCHANGED statVars

CmdStart(name) == CmdStartUpTo(name, MaxStarts)

\* processCommand "Stop", the engine's part: stop()
StopRequest ==
    /\ ~aborted
    /\ response' = OkResponse
    /\ RunnerFrame
    /\ Stop
    /\ UNCHANGED << now, temperature, targetTemperature, overrideTargetTemperature,
                    manualOverrideOutput, resetPitTime, selectedMashScheduleName, boilRun,
                    executionSteps, notifications, currentMashStep, pidOutput, pidLoopTime,
                    invertOutputs, heaters, gpio, ctlTasks, pidTasks, outTasks, aborted >>

\* processCommand "Stop" as the engine sees it; with the session it ends it is
\* CmdStopRecorded
CmdStop == StopRequest /\ UNCHANGED statVars

\* data["targetTemp"] of a SetTemp request: null, a number, or anything else
TempData == {[kind |-> "null", value |-> 0], [kind |-> "other", value |-> 0]}
                \cup {[kind |-> "number", value |-> v] : v \in OverrideTemps}

\* processCommand "SetTemp"
CmdSetTemp(d) ==
    /\ ~aborted
    /\ response' = IF d.kind = "other"
                   THEN Failure("Incorrect data, integer or float expected!")
                   ELSE OkResponse
    /\ UNCHANGED << sensorVars, settingsVars >>
    /\ overrideTargetTemperature' = IF d.kind = "number" THEN Some(d.value) ELSE NoValue
    /\ targetTemperature' =
          IF d.kind = "other" \/ selectedMashScheduleName # ""
          THEN targetTemperature
          ELSE IF d.kind = "number" THEN d.value ELSE 0
    /\ UNCHANGED << now, temperature, controlRun, inOverTime, boostStatus, statusText,
                    manualOverrideOutput, resetPitTime, selectedMashScheduleName, boilRun,
                    executionSteps, notifications, currentMashStep, pidOutput, pidLoopTime,
                    invertOutputs, heaters, gpio, ctlTasks, pidTasks, outTasks, aborted >>

\* data["output"] of a SetOverrideOutput request: null, a number, or anything else
OutputData == {[kind |-> "null", value |-> 0], [kind |-> "other", value |-> 0]}
                  \cup {[kind |-> "number", value |-> v] : v \in OverrideOutputs}

\* processCommand "SetOverrideOutput"
CmdSetOverrideOutput(d) ==
    /\ ~aborted
    /\ response' = OkResponse
    /\ UNCHANGED << sensorVars, settingsVars >>
    /\ manualOverrideOutput' = IF d.kind = "number" THEN Some(d.value) ELSE NoValue
    /\ resetPitTime' = TRUE
    /\ UNCHANGED << now, temperature, targetTemperature, controlRun, inOverTime, boostStatus,
                    statusText, overrideTargetTemperature, selectedMashScheduleName, boilRun,
                    executionSteps, notifications, currentMashStep, pidOutput, pidLoopTime,
                    invertOutputs, heaters, gpio, ctlTasks, pidTasks, outTasks, aborted >>

\* processCommand with a command that is none of the else-if chain: no branch is
\* taken, the response is as it was initialised
CmdUnknown ==
    /\ ~aborted
    /\ response' = OkResponse
    /\ UNCHANGED << sensorVars, settingsVars >>
    /\ UNCHANGED << now, temperature, engineVars, pidLoopTime, invertOutputs, heaters,
                    gpio, ctlTasks, pidTasks, outTasks, aborted >>

\* ---------------------------------------------------------------- environment

\* the read loop writes the control average
ReadLoop(temp) ==
    /\ ~aborted
    /\ UNCHANGED auxVars
    /\ temp # temperature
    /\ temperature' = temp
    /\ UNCHANGED << now, engineVars, pidLoopTime, invertOutputs, heaters, gpio,
                    ctlTasks, pidTasks, outTasks, aborted >>

\* the system clock advances
Tick ==
    /\ ~aborted
    /\ UNCHANGED auxVars
    /\ now + ClockStep <= MaxTime
    /\ now' = now + ClockStep
    /\ UNCHANGED << temperature, engineVars, pidLoopTime, invertOutputs, heaters, gpio,
                    ctlTasks, pidTasks, outTasks, aborted >>

\* ---------------------------------------------------------------- control loop

\* key k of executionSteps
HasStep(k) == k + 1 \in DOMAIN executionSteps
StepAt(k) == executionSteps[k + 1]

\* controlLoop: boostUntil, computed when the task has none yet (boostUntil == 0)
BoostUntil(old, step) ==
    IF old = 0 THEN (step.temperature * boostModeUntil) \div 100 ELSE old

\* variant of BoostNext in which the rest also ends on an unchanged temperature
BoostNextOnEqual(step, until, prevTemperature) ==
    IF ~step.allowBoost THEN boostStatus
    ELSE IF boostStatus = "Off" /\ temperature < until THEN "Boost"
    ELSE IF boostStatus = "Boost" /\ temperature >= until THEN "Rest"
    ELSE IF boostStatus = "Rest" /\ temperature <= prevTemperature THEN "Off"
    ELSE boostStatus

\* controlLoop, "Boost mode logic": the boostStatus after the tick
BoostNext(step, until, prevTemperature) ==
    IF ~step.allowBoost THEN boostStatus
    ELSE IF boostStatus = "Off" /\ FLess(temperature, until) THEN "Boost"
    ELSE IF boostStatus = "Boost" /\ FAtLeast(temperature, until) THEN "Rest"
    ELSE IF boostStatus = "Rest" /\ FLess(temperature, prevTemperature) THEN "Off"
    ELSE boostStatus

\* variant of OverTimeBranch in which Overtime starts only beyond tempMargin
OverTimeBranchBeyond(step) ==
    IF step.extendIfNeeded /\ ~inOverTime /\ (step.temperature - temperature) > tempMargin
    THEN "start"
    ELSE IF inOverTime /\ (step.temperature - temperature) <= tempMargin
    THEN "done"
    ELSE IF ~inOverTime
    THEN "next"
    ELSE "stay"

\* controlLoop, the three branches taken when the step's time is reached:
\* "start" enters Overtime, "done" leaves it, "next" is a plain advance
OverTimeBranch(step) ==
    IF /\ step.extendIfNeeded /\ ~inOverTime
       /\ FAtLeast(FMinus(step.temperature, temperature), tempMargin)
    THEN "start"
    ELSE IF inOverTime /\ FAtMost(FMinus(step.temperature, temperature), tempMargin)
    THEN "done"
    ELSE IF ~inOverTime
    THEN "next"
    ELSE "stay"

\* recalculateScheduleAfterOverTime: every step from the current one on
ShiftSteps(steps, k, extraSeconds) ==
    [p \in DOMAIN steps |->
        IF p >= k + 1 THEN [steps[p] EXCEPT !.time = @ + extraSeconds] ELSE steps[p]]

\* recalculateScheduleAfterOverTime: every notification
ShiftNotifications(ns, extraSeconds) ==
    [p \in DOMAIN ns |-> [ns[p] EXCEPT !.timePoint = @ + extraSeconds]]

\* controlLoop: whether the override is reset on the branch taken
ClearsOverride(branch) == branch = "next"

\* controlLoop: the while test, after the task's start or its delay
CtlCheck(t) ==
    /\ ~aborted
    /\ UNCHANGED auxVars
    /\ t \in DOMAIN ctlTasks
    /\ ctlTasks[t].pc \in {"init", "check"}
    /\ LET me == IF ctlTasks[t].pc = "init"
                 THEN [ctlTasks[t] EXCEPT !.prevTemperature = temperature]
                 ELSE ctlTasks[t]
       IN ctlTasks' = [ctlTasks EXCEPT ![t] =
                          IF controlRun THEN [me EXCEPT !.pc = "eval"] ELSE DoneCtl]
    /\ UNCHANGED << now, temperature, engineVars, pidLoopTime, invertOutputs, heaters, gpio,
                    pidTasks, outTasks, aborted >>

\* controlLoop: the lookup of an index that is no key (std::map::at throws)
CtlLookupFault(t) ==
    /\ ~aborted
    /\ UNCHANGED auxVars
    /\ t \in DOMAIN ctlTasks
    /\ ctlTasks[t].pc = "eval"
    /\ Len(executionSteps) >= currentMashStep
    /\ ~HasStep(currentMashStep)
    /\ aborted' = TRUE
    /\ UNCHANGED << now, temperature, engineVars, pidLoopTime, invertOutputs, heaters, gpio,
                    ctlTasks, pidTasks, outTasks >>

\* controlLoop: the list is exhausted, the loop calls stop()
CtlFinished(t) ==
    /\ ~aborted
    /\ UNCHANGED auxVars
    /\ t \in DOMAIN ctlTasks
    /\ ctlTasks[t].pc = "eval"
    /\ Len(executionSteps) < currentMashStep
    /\ Stop
    /\ ctlTasks' = [ctlTasks EXCEPT ![t] =
                       [@ EXCEPT !.pc = "check", !.prevTemperature = temperature]]
    /\ UNCHANGED << now, temperature, targetTemperature, overrideTargetTemperature,
                    manualOverrideOutput, resetPitTime, selectedMashScheduleName, boilRun,
                    executionSteps, notifications, currentMashStep, pidOutput, pidLoopTime,
                    invertOutputs, heaters, gpio, pidTasks, outTasks, aborted >>

\* controlLoop: the body from reading the clock to the decision to advance
CtlEval(t) ==
    /\ ~aborted
    /\ UNCHANGED auxVars
    /\ t \in DOMAIN ctlTasks
    /\ ctlTasks[t].pc = "eval"
    /\ Len(executionSteps) >= currentMashStep
    /\ HasStep(currentMashStep)
    /\ LET me == ctlTasks[t]
           nextStep == StepAt(currentMashStep)
           secondsToGo == IF nextStep.time > now THEN nextStep.time - now ELSE 0
           until == IF nextStep.allowBoost THEN BoostUntil(me.boostUntil, nextStep)
                    ELSE me.boostUntil
           boost == BoostNext(nextStep, until, me.prevTemperature)
           restEnd == boostStatus = "Rest" /\ boost = "Off"
           branch == IF secondsToGo < 1 THEN OverTimeBranch(nextStep) ELSE "wait"
           extraSeconds == now - nextStep.time
       IN /\ targetTemperature' = IF overrideTargetTemperature.has
                                  THEN overrideTargetTemperature.value
                                  ELSE nextStep.temperature
          /\ boostStatus' = boost
          /\ inOverTime' = CASE branch = "start" -> TRUE
                             [] branch = "done" -> FALSE
                             [] OTHER -> inOverTime
          /\ IF branch = "done"
             THEN /\ executionSteps' = ShiftSteps(executionSteps, currentMashStep, extraSeconds)
                  /\ notifications' = ShiftNotifications(notifications, extraSeconds)
             ELSE UNCHANGED << executionSteps, notifications >>
          /\ overrideTargetTemperature' =
                IF ClearsOverride(branch) THEN NoValue ELSE overrideTargetTemperature
          /\ resetPitTime' = (resetPitTime \/ restEnd \/ me.resetPIDNextStep)
          /\ ctlTasks' = [ctlTasks EXCEPT ![t] =
                [pc |-> "commit", now |-> now,
                 gotoNextStep |-> branch \in {"done", "next"},
                 resetPIDNextStep |-> FALSE,
                 prevTemperature |-> me.prevTemperature,
                 boostUntil |-> until]]
    /\ UNCHANGED << now, temperature, controlRun, statusText, manualOverrideOutput,
                    selectedMashScheduleName, boilRun, currentMashStep, pidOutput,
                    pidLoopTime, invertOutputs, heaters, gpio, pidTasks, outTasks, aborted >>

\* controlLoop, notifications: the first that is not done, 0 when there is none
FirstNotDone(ns) ==
    IF \E p \in DOMAIN ns : ~ns[p].done
    THEN CHOOSE p \in DOMAIN ns : ~ns[p].done /\ \A q \in DOMAIN ns : ~ns[q].done => p <= q
    ELSE 0

\* variant of NotifyDue that does not look at inOverTime
NotifyDueAlways(first, tickNow) ==
    first # 0 /\ tickNow > notifications[first].timePoint

\* controlLoop, notifications: whether the first notification that is not done
\* fires on a tick that read the clock at tickNow
NotifyDue(first, tickNow) ==
    ~inOverTime /\ first # 0 /\ tickNow > notifications[first].timePoint

\* controlLoop: the advance, the notifications, prevTemperature and the delay
CtlCommit(t) ==
    /\ ~aborted
    /\ UNCHANGED auxVars
    /\ t \in DOMAIN ctlTasks
    /\ ctlTasks[t].pc = "commit"
    /\ LET me == ctlTasks[t]
           first == FirstNotDone(notifications)
       IN /\ IF me.gotoNextStep
             THEN /\ currentMashStep' = currentMashStep + 1
                  /\ boostStatus' = "Off"
             ELSE UNCHANGED << currentMashStep, boostStatus >>
          /\ notifications' =
                IF NotifyDue(first, me.now)
                THEN [notifications EXCEPT ![first].done = TRUE]
                ELSE notifications
          /\ ctlTasks' = [ctlTasks EXCEPT ![t] =
                [pc |-> "check", now |-> 0, gotoNextStep |-> FALSE,
                 resetPIDNextStep |-> me.gotoNextStep,
                 prevTemperature |-> temperature,
                 boostUntil |-> me.boostUntil]]
    /\ UNCHANGED << now, temperature, targetTemperature, controlRun, inOverTime, statusText,
                    overrideTargetTemperature, manualOverrideOutput, resetPitTime,
                    selectedMashScheduleName, boilRun, executionSteps, pidOutput,
                    pidLoopTime, invertOutputs, heaters, gpio, pidTasks, outTasks, aborted >>

\* ---------------------------------------------------------------- PID loop

Heater(watt, useForMash, useForBoil) ==
    [watt |-> watt, useForMash |-> useForMash, useForBoil |-> useForBoil,
     enabled |-> FALSE, burnTime |-> 0, burn |-> FALSE]

\* pidLoop: a heater is enabled when it is used for the mode of the run
EnabledFor(h, boil) == (boil /\ h.useForBoil) \/ (~boil /\ h.useForMash)

RECURSIVE SumWatt(_, _)
SumWatt(hs, i) ==
    IF i > Len(hs) THEN 0
    ELSE (IF hs[i].enabled THEN hs[i].watt ELSE 0) + SumWatt(hs, i + 1)

\* variant of DutyFor in which the boost is looked at before the manual override
DutyForBoostFirst(pidOut) ==
    IF boostStatus = "Boost" THEN 100
    ELSE IF boostStatus = "Rest" THEN 0
    ELSE IF manualOverrideOutput.has THEN manualOverrideOutput.value
    ELSE pidOut

\* pidLoop: the duty of a cycle, from the PID output and the overrides
DutyFor(pidOut) ==
    IF manualOverrideOutput.has THEN manualOverrideOutput.value
    ELSE IF boostStatus = "Boost" THEN 100
    ELSE IF boostStatus = "Rest" THEN 0
    ELSE pidOut

\* pidLoop: int outputWatt = (totalWattage / 100) * outputPercent
OutputWatt(totalWattage, outputPercent) == (totalWattage \div 100) * outputPercent

\* pidLoop: (int)(((double)outputWatt / (double)watt) * 100), for 0 <= outputWatt < watt.
\* The double quotient times 100 falls just below the whole number for the exact
\* ratios 0.29, 0.57 and 0.58 (0.29 * 100 is 28.999999999999996), and the
\* conversion truncates.
PercentOf(outputWatt, watt) ==
    LET p == (outputWatt * 100) \div watt
    IN IF outputWatt * 100 = p * watt /\ p \in {29, 57, 58} THEN p - 1 ELSE p

\* pidLoop: the loop that hands out outputWatt in preference order; acc is the
\* burnTime of the heaters before i, and the heaters after a break keep 0
RECURSIVE BurnTimes(_, _, _, _)
BurnTimes(hs, i, outputWatt, acc) ==
    IF i > Len(hs) THEN acc
    ELSE IF ~hs[i].enabled THEN BurnTimes(hs, i + 1, outputWatt, Append(acc, 0))
    ELSE IF outputWatt < 0 THEN acc \o [j \in 1..(Len(hs) - i + 1) |-> 0]
    ELSE IF hs[i].watt > outputWatt
         THEN Append(acc, PercentOf(outputWatt, hs[i].watt))
                  \o [j \in 1..(Len(hs) - i) |-> 0]
         ELSE BurnTimes(hs, i + 1, outputWatt - hs[i].watt, Append(acc, 100))

\* pidLoop: int burnUntil = ((double)burnTime / 100) * (double)pidLoopTime; the
\* double product truncates to this quotient for the loop times of the model (it
\* falls one short for some burnTime when pidLoopTime is 50, 90 or 100)
BurnUntil(burnTime, loopTime) ==
    IF burnTime > 0 THEN (burnTime * loopTime) \div 100 ELSE 0

\* pidLoop: the burn flag of an enabled heater in slot i
BurnInSlot(h, i) == BurnUntil(h.burnTime, pidLoopTime) > i

\* pidLoop: the start of the task, up to the while loop
PidInit(t) ==
    /\ ~aborted
    /\ UNCHANGED auxVars
    /\ t \in DOMAIN pidTasks
    /\ pidTasks[t].pc = "init"
    /\ LET hs == [h \in DOMAIN heaters |->
                     [heaters[h] EXCEPT !.enabled = EnabledFor(heaters[h], boilRun)]]
       IN /\ heaters' = hs
          /\ pidTasks' = [pidTasks EXCEPT ![t] =
                             [@ EXCEPT !.pc = "cycle", !.totalWattage = SumWatt(hs, 1)]]
    /\ UNCHANGED << now, temperature, engineVars, pidLoopTime, invertOutputs, gpio,
                    ctlTasks, outTasks, aborted >>

\* pidLoop: the while test fails, the task ends
PidExit(t) ==
    /\ ~aborted
    /\ UNCHANGED auxVars
    /\ t \in DOMAIN pidTasks
    /\ pidTasks[t].pc = "cycle"
    /\ ~controlRun
    /\ pidOutput' = 0
    /\ pidTasks' = [pidTasks EXCEPT ![t] = DonePid]
    /\ UNCHANGED << now, temperature, targetTemperature, controlRun, inOverTime, boostStatus,
                    statusText, overrideTargetTemperature, manualOverrideOutput, resetPitTime,
                    selectedMashScheduleName, boilRun, executionSteps, notifications,
                    currentMashStep, pidLoopTime, invertOutputs, heaters, gpio,
                    ctlTasks, outTasks, aborted >>

\* pidLoop: the start of a cycle: the duty and each heater's burnTime
PidCycle(t, pidOut) ==
    /\ ~aborted
    /\ UNCHANGED auxVars
    /\ t \in DOMAIN pidTasks
    /\ pidTasks[t].pc = "cycle"
    /\ controlRun
    /\ LET outputPercent == DutyFor(pidOut)
           outputWatt == OutputWatt(pidTasks[t].totalWattage, outputPercent)
           bt == BurnTimes(heaters, 1, outputWatt, << >>)
       IN /\ pidOutput' = IF manualOverrideOutput.has THEN pidOut ELSE outputPercent
          /\ heaters' = [h \in DOMAIN heaters |-> [heaters[h] EXCEPT !.burnTime = bt[h]]]
          /\ pidTasks' = [pidTasks EXCEPT ![t] =
                             [@ EXCEPT !.pc = IF pidLoopTime > 0 THEN "slot" ELSE "cycle",
                                       !.outputPercent = outputPercent,
                                       !.outputWatt = outputWatt,
                                       !.i = 0]]
    /\ UNCHANGED << now, temperature, targetTemperature, controlRun, inOverTime, boostStatus,
                    statusText, overrideTargetTemperature, manualOverrideOutput, resetPitTime,
                    selectedMashScheduleName, boilRun, executionSteps, notifications,
                    currentMashStep, pidLoopTime, invertOutputs, gpio,
                    ctlTasks, outTasks, aborted >>

\* pidLoop: one one-second slot of the cycle
PidSlot(t) ==
    /\ ~aborted
    /\ UNCHANGED auxVars
    /\ t \in DOMAIN pidTasks
    /\ pidTasks[t].pc = "slot"
    /\ LET me == pidTasks[t]
           endCycle == [me EXCEPT !.pc = "cycle", !.i = 0]
       IN IF ~controlRun
          THEN /\ pidTasks' = [pidTasks EXCEPT ![t] = endCycle]
               /\ UNCHANGED << heaters, resetPitTime >>
          ELSE /\ heaters' = [h \in DOMAIN heaters |->
                                 IF heaters[h].enabled
                                 THEN [heaters[h] EXCEPT !.burn = BurnInSlot(heaters[h], me.i)]
                                 ELSE heaters[h]]
               /\ resetPitTime' = FALSE
               /\ pidTasks' = [pidTasks EXCEPT ![t] =
                                  IF resetPitTime \/ me.i + 1 >= pidLoopTime
                                  THEN endCycle
                                  ELSE [me EXCEPT !.i = me.i + 1]]
    /\ UNCHANGED << now, temperature, targetTemperature, controlRun, inOverTime, boostStatus,
                    statusText, overrideTargetTemperature, manualOverrideOutput,
                    selectedMashScheduleName, boilRun, executionSteps, notifications,
                    currentMashStep, pidOutput, pidLoopTime, invertOutputs, gpio,
                    ctlTasks, outTasks, aborted >>

\* ---------------------------------------------------------------- output loop

AllLow == [h \in DOMAIN heaters |-> gpioLow]

\* outputLoop: what the loop writes to a heater's pin
LevelFor(h) == IF h.burn THEN gpioHigh ELSE gpioLow

\* variant of ExitLevels in which the task ends without writing the pins
ExitLevelsKept == gpio

\* outputLoop: the levels left by the task when it ends
ExitLevels == AllLow

\* outputLoop: the start of the task
OutInit(t) ==
    /\ ~aborted
    /\ UNCHANGED auxVars
    /\ t \in DOMAIN outTasks
    /\ outTasks[t].pc = "init"
    /\ gpio' = AllLow
    /\ outTasks' = [outTasks EXCEPT ![t] = [pc |-> "check"]]
    /\ UNCHANGED << now, temperature, engineVars, pidLoopTime, invertOutputs, heaters,
                    ctlTasks, pidTasks, aborted >>

\* outputLoop: the while test; when it fails the task sets the outputs off and ends
OutCheck(t) ==
    /\ ~aborted
    /\ UNCHANGED auxVars
    /\ t \in DOMAIN outTasks
    /\ outTasks[t].pc = "check"
    /\ IF controlRun
       THEN /\ outTasks' = [outTasks EXCEPT ![t] = [pc |-> "delay"]]
            /\ UNCHANGED gpio
       ELSE /\ outTasks' = [outTasks EXCEPT ![t] = DoneOut]
            /\ gpio' = ExitLevels
    /\ UNCHANGED << now, temperature, engineVars, pidLoopTime, invertOutputs, heaters,
                    ctlTasks, pidTasks, aborted >>

\* outputLoop: after the delay, each heater's burn flag goes to its pin
OutMirror(t) ==
    /\ ~aborted
    /\ UNCHANGED auxVars
    /\ t \in DOMAIN outTasks
    /\ outTasks[t].pc = "delay"
    /\ gpio' = [h \in DOMAIN heaters |-> LevelFor(heaters[h])]
    /\ outTasks' = [outTasks EXCEPT ![t] = [pc |-> "check"]]
    /\ UNCHANGED << now, temperature, engineVars, pidLoopTime, invertOutputs, heaters,
                    ctlTasks, pidTasks, aborted >>

\* ---------------------------------------------------------------- stir

\* stir tasks created over one behaviour
MaxStirTasks == 2

\* data of a StartStir request: max, intervalStart and intervalStop in minutes;
\* the first runs the stirrer all the time, the second in the second minute of
\* every three
StirConfigs ==
    { [max |-> 3, intervalStart |-> 0, intervalStop |-> 3],
      [max |-> 3, intervalStart |-> 1, intervalStop |-> 2] }

\* what a stir action leaves alone
StirFrame ==
    UNCHANGED << now, temperature, engineVars, pidLoopTime, invertOutputs, heaters, gpio,
                 ctlTasks, pidTasks, outTasks, aborted, sensorVars,
                 nvs, nvsOpen, lastRead, sinceReset, lastWrite, statVars, savedSchedule,
                 devices, rtdSensors >>

\* processCommand "StartStir": startStir(data); stir_PIN is configured
CmdStartStir(stirConfig) ==
    /\ ~aborted
    /\ Len(stirTasks) < MaxStirTasks
    /\ response' = OkResponse
    /\ stir' = [stirRun |-> TRUE, stirStatusText |-> "Running",
                stirTimeSpan |-> stirConfig.max,
                stirIntervalStart |-> stirConfig.intervalStart,
                stirIntervalStop |-> stirConfig.intervalStop,
                stirStartCycle |-> now]
    /\ stirTasks' = Append(stirTasks, [pc |-> "check"])
    /\ UNCHANGED stirPin
    /\ StirFrame

\* processCommand "StopStir": stopStir() clears stirRun and sets the pin low
CmdStopStir ==
    /\ ~aborted
    /\ response' = OkResponse
    /\ stir' = [stir EXCEPT !.stirRun = FALSE, !.stirStatusText = "Idle"]
    /\ stirPin' = gpioLow
    /\ UNCHANGED stirTasks
    /\ StirFrame

\* stirLoop: the while test; when it fails the task ends
StirCheck(t) ==
    /\ ~aborted
    /\ t \in DOMAIN stirTasks
    /\ stirTasks[t].pc = "check"
    /\ stirTasks' = [stirTasks EXCEPT ![t].pc = IF stir.stirRun THEN "body" ELSE "done"]
    /\ UNCHANGED << stir, stirPin, response >>
    /\ StirFrame

\* stirLoop: the level the body writes to the pin
StirLevel ==
    IF stir.stirIntervalStart = 0 /\ stir.stirIntervalStop = stir.stirTimeSpan
    THEN gpioHigh
    ELSE IF /\ now >= stir.stirStartCycle + 60 * stir.stirIntervalStart
            /\ now <= stir.stirStartCycle + 60 * stir.stirIntervalStop
         THEN gpioHigh
         ELSE gpioLow

\* stirLoop: the body of the loop, up to the delay
StirBody(t) ==
    /\ ~aborted
    /\ t \in DOMAIN stirTasks
    /\ stirTasks[t].pc = "body"
    /\ stirPin' = StirLevel
    /\ LET alwaysOn == stir.stirIntervalStart = 0
                            /\ stir.stirIntervalStop = stir.stirTimeSpan
           cycleEnd == stir.stirStartCycle + 60 * stir.stirTimeSpan
       IN  stir' = IF ~alwaysOn /\ now >= cycleEnd
                   THEN [stir EXCEPT !.stirStartCycle = cycleEnd]
                   ELSE stir
    /\ stirTasks' = [stirTasks EXCEPT ![t].pc = "check"]
    /\ UNCHANGED response
    /\ StirFrame

\* processCommand "SaveHeaterSettings" with the settings the heaters have:
\* refused during a run; otherwise saveHeaterSettings replaces the Heater
\* objects and initHeaters sets every heater pin low
CmdSaveHeaterSettings ==
    /\ ~aborted
    /\ IF controlRun
       THEN /\ response' = Failure("You cannot save heater settings while running!")
            /\ UNCHANGED << heaters, gpio >>
       ELSE /\ response' = OkResponse
            /\ heaters' = [h \in DOMAIN heaters |->
                               Heater(heaters[h].watt, heaters[h].useForMash,
                                      heaters[h].useForBoil)]
            /\ gpio' = AllLow
    /\ UNCHANGED << now, temperature, engineVars, pidLoopTime, invertOutputs,
                    ctlTasks, pidTasks, outTasks, aborted, sensorVars, settingsVars >>

\* ---------------------------------------------------------------- sensors

\* ids: an RTD sensor is RtdBase + its CS pin, an NTC sensor is NtcBase + its
\* analog pin, a DS18B20 has its 1-Wire address (DsAddresses stands for the
\* 64 bit ROM codes on the bus)
RtdBase == 830885888
NtcBase == 1314145024
CsPins == {1, 2, 3}
AnalogPins == {1, 2}
DsAddresses == {40}
NoPin == -1
\* TemperatureSensor objects created over one behaviour
MaxSensorObjs == 2
\* sessions started, data points pushed in one session
MaxSessionIds == 3
MaxPoints == 2
\* what a sensor that answers can report
SensorTemps == {60, 64}

IsRtd(sensor) == sensor.sensorType \in {"PT100", "PT1000"}

NewSensor(id, type, useForControl) ==
    [id |-> id, sensorType |-> type, useForControl |-> useForControl,
     connected |-> TRUE, spi |-> IsRtd([sensorType |-> type]),
     consecutiveFailures |-> 0,
     compensateAbsolute |-> 0, compensateRelative |-> 1, lastTemp |-> 0]

MapErase(m, k) == [x \in DOMAIN m \ {k} |-> m[x]]
MapPut(m, k, v) == [x \in DOMAIN m \cup {k} |-> IF x = k THEN v ELSE m[x]]

NoEntry == [type |-> "none", value |-> << >>]
SettingKeys == {"a", "b"}

Idle == [pc |-> "idle", request |-> << >>, message |-> ""]

\* an entry of the store under one of the statistics manager's keys
Absent(value) == [present |-> FALSE, value |-> value]
Present(value) == [present |-> TRUE, value |-> value]

\* StatisticsManager::StatisticsManager, over an empty store
InitStats ==
    /\ sessionActive = FALSE
    /\ currentSessionId = 0
    /\ sessionStartTime = 0
    /\ currentSessionData = << >>
    /\ statNvs = [count |-> Absent(0), nextId |-> Absent(0), max |-> Absent(0),
                  session |-> [id \in 1..MaxSessionIds |-> Absent(<< >>)],
                  data |-> [id \in 1..MaxSessionIds |-> Absent(<< >>)]]
    /\ maxRequested = NoValue

\* all but the sensors
InitRest ==
    /\ InitStats
    /\ savedSchedule = [boil |-> FALSE, steps |-> << >>, notifications |-> << >>]
    /\ stir = [stirRun |-> FALSE, stirStatusText |-> "Idle", stirTimeSpan |-> 0,
               stirIntervalStart |-> 0, stirIntervalStop |-> 0, stirStartCycle |-> 0]
    /\ stirTasks = << >>
    /\ stirPin = gpioLow
    /\ devices = << >>
    /\ rtdSensors = << >>
    /\ skipTempLoop = FALSE
    /\ readTask = [pc |-> "delay", last |-> NoPin, sum |-> 0, nrOfSensors |-> 0,
                   seen |-> << >>]
    /\ disp = Idle
    /\ response = OkResponse
    /\ nvs = [k \in SettingKeys |-> NoEntry]
    /\ nvsOpen = TRUE
    /\ lastRead = [type |-> "none", default |-> << >>, result |-> << >>]
    /\ sinceReset = FALSE
    /\ lastWrite = [key |-> "", type |-> "none", value |-> << >>]

InitAux ==
    /\ sensors = << >>
    /\ sensorObjs = << >>
    /\ InitRest

\* ---- the read loop (readLoop): one cycle is the delay, then, unless the latch
\* is set, one pass over the map in key order, then the average.

\* the entry the range-for visits after key `last`
KeysAfter(last) == { k \in DOMAIN sensors : k > last }
NextKey(last) == CHOOSE k \in KeysAfter(last) : \A x \in KeysAfter(last) : k <= x

ReadBegin ==
    /\ ~aborted
    /\ readTask.pc = "delay"
    /\ ~skipTempLoop
    /\ readTask' = [pc |-> "iter", last |-> NoPin, sum |-> 0, nrOfSensors |-> 0,
                    seen |-> << >>]
    /\ UNCHANGED << now, temperature, engineVars, pidLoopTime, invertOutputs, heaters,
                    gpio, ctlTasks, pidTasks, outTasks, aborted, sensors, sensorObjs,
                    skipTempLoop, disp, response, settingsVars >>

\* the thresholds of the reinit: failed measurements in a row, and cycles in a
\* row with a null SPI handle
ReinitAfterFailures == 5
ReinitAfterNullHandle == 3

\* reinitializeRtdSensor: a new device handle on success
Reinitialized(sensor, ok) ==
    IF ok
    THEN [sensor EXCEPT !.spi = TRUE, !.consecutiveFailures = 0, !.connected = FALSE]
    ELSE sensor

\* variant of ReadRtd in which a reinit that fails leaves the counter as it is
ReadRtdCountKept(sensor, measured, reinitOk) ==
    IF ~sensor.spi
    THEN LET failed == [sensor EXCEPT !.connected = FALSE,
                                      !.consecutiveFailures = @ + 1]
         IN  IF failed.consecutiveFailures >= ReinitAfterNullHandle
             THEN Reinitialized(failed, reinitOk)
             ELSE failed
    ELSE IF ~measured
    THEN LET failed == [sensor EXCEPT !.connected = FALSE,
                                      !.consecutiveFailures = @ + 1]
         IN  IF failed.consecutiveFailures >= ReinitAfterFailures
             THEN Reinitialized(failed, reinitOk)
             ELSE failed
    ELSE [sensor EXCEPT !.connected = TRUE, !.consecutiveFailures = 0]

\* the body of the range-for for an RTD sensor; `measured` is whether
\* max31865_measure succeeds, `reinitOk` whether a reinit would
ReadRtd(sensor, measured, reinitOk) ==
    IF ~sensor.spi
    THEN LET failed == [sensor EXCEPT !.connected = FALSE,
                                      !.consecutiveFailures = @ + 1]
         IN  IF failed.consecutiveFailures >= ReinitAfterNullHandle
             THEN [Reinitialized(failed, reinitOk) EXCEPT !.consecutiveFailures = 0]
             ELSE failed
    ELSE IF ~measured
    THEN LET failed == [sensor EXCEPT !.connected = FALSE,
                                      !.consecutiveFailures = @ + 1]
         IN  IF failed.consecutiveFailures >= ReinitAfterFailures
             THEN [Reinitialized(failed, reinitOk) EXCEPT !.consecutiveFailures = 0]
             ELSE failed
    ELSE [sensor EXCEPT !.connected = TRUE, !.consecutiveFailures = 0]

\* whether the body reaches the sum with a reading
Reads(sensor, measured) ==
    CASE sensor.sensorType = "DS18B20" -> sensor.connected /\ measured
      [] IsRtd(sensor) -> sensor.spi /\ measured
      [] OTHER -> measured

ReadBody(sensor, measured, reinitOk) ==
    CASE sensor.sensorType = "DS18B20" ->
            IF sensor.connected /\ ~measured
            THEN [sensor EXCEPT !.connected = FALSE]
            ELSE sensor
      [] IsRtd(sensor) -> ReadRtd(sensor, measured, reinitOk)
      [] OTHER ->
            IF measured
            THEN [sensor EXCEPT !.connected = TRUE, !.consecutiveFailures = 0]
            ELSE [sensor EXCEPT !.connected = FALSE]

\* the sentinel published for an RTD or NTC sensor that failed
Disconnected == -999

\* the reading as it is, without the compensation
Uncompensated(sensor, reading) == reading

\* apply compensation (the scale is Celsius)
Compensated(sensor, reading) ==
    LET shifted == IF sensor.compensateAbsolute # 0
                   THEN reading + sensor.compensateAbsolute
                   ELSE reading
    IN IF sensor.compensateRelative # 0 /\ sensor.compensateRelative # 1
       THEN shifted * sensor.compensateRelative
       ELSE shifted

\* sensor->lastTemp after the body: the compensated reading, or what a failure
\* leaves there; a DS18B20 that is not connected is skipped
LastTemp(sensor, measured, temp) ==
    IF Reads(sensor, measured) THEN temp
    ELSE IF sensor.sensorType = "DS18B20"
    THEN (IF sensor.connected THEN 0 ELSE sensor.lastTemp)
    ELSE Disconnected

\* readTask.seen is the record of the pass: for each sensor visited, its flags
\* and compensation at the visit, whether it was measured, and the reading
ReadSensor(measured, reinitOk, reading) ==
    /\ ~aborted
    /\ readTask.pc = "iter"
    /\ KeysAfter(readTask.last) # {}
    /\ LET key == NextKey(readTask.last)
           ref == sensors[key]
           sensor == sensorObjs[ref]
           temp == Compensated(sensor, reading)
           counts == Reads(sensor, measured) /\ sensor.useForControl
       IN  /\ sensorObjs' = [sensorObjs EXCEPT ![ref] =
                                [ReadBody(sensor, measured, reinitOk) EXCEPT
                                    !.lastTemp = LastTemp(sensor, measured, temp)]]
           /\ readTask' = [readTask EXCEPT
                              !.last = key,
                              !.sum = IF counts THEN @ + temp ELSE @,
                              !.nrOfSensors = IF counts THEN @ + 1 ELSE @,
                              !.seen = Append(@, [key |-> key,
                                                  useForControl |-> sensor.useForControl,
                                                  measured |-> Reads(sensor, measured),
                                                  reading |-> reading,
                                                  compensateAbsolute |-> sensor.compensateAbsolute,
                                                  compensateRelative |-> sensor.compensateRelative])]
    /\ UNCHANGED << now, temperature, engineVars, pidLoopTime, invertOutputs, heaters,
                    gpio, ctlTasks, pidTasks, outTasks, aborted, sensors,
                    skipTempLoop, disp, response, settingsVars >>

\* float avg = sum / nrOfSensors: not a number when no sensor counted
Average(sum, nrOfSensors) == IF nrOfSensors = 0 THEN NaN ELSE sum \div nrOfSensors

ReadEnd ==
    /\ ~aborted
    /\ readTask.pc = "iter"
    /\ KeysAfter(readTask.last) = {}
    /\ temperature' = Average(readTask.sum, readTask.nrOfSensors)
    /\ readTask' = [readTask EXCEPT !.pc = "delay"]
    /\ UNCHANGED << now, engineVars, pidLoopTime, invertOutputs, heaters,
                    gpio, ctlTasks, pidTasks, outTasks, aborted, sensors, sensorObjs,
                    skipTempLoop, disp, response, settingsVars >>

\* ---- the dispatcher's sensor commands. saveTempSensorSettings and
\* detectOnewireTemperatureSensors set the latch and wait two seconds before
\* they touch the map; a pass of the read loop is taken to be shorter than that
\* wait, so the step after the wait is enabled when the read loop is not inside
\* its pass.

rtdSensorsEnabled == TRUE
BadPin == -2

\* TemperatureSensor::to_json: the id, and the pin that the id encodes
SensorJson(sensor) ==
    [id |-> sensor.id,
     pin |-> IF IsRtd(sensor) THEN sensor.id - RtdBase
             ELSE IF sensor.sensorType = "NTC" THEN sensor.id - NtcBase
             ELSE NoPin]

\* the request of saveTempSensorSettings that the Add commands build from the map
JsonOf(map, objs) ==
    LET RECURSIVE Listed(_)
        Listed(last) ==
            LET after == { k \in DOMAIN map : k > last }
            IN  IF after = {} THEN << >>
                ELSE LET key == CHOOSE k \in after : \A x \in after : k <= x
                     IN  << SensorJson(objs[map[key]]) >> \o Listed(key)
    IN  Listed(NoPin)

AddRtdSensor(csPin, type, useForControl, initOk) ==
    /\ ~aborted
    /\ disp.pc = "idle"
    /\ Len(sensorObjs) < MaxSensorObjs
    /\ LET rtdSensorId == RtdBase + csPin
           ref == Len(sensorObjs) + 1
       IN  IF ~rtdSensorsEnabled
           THEN /\ response' = Failure("RTD sensors are not enabled in system settings")
                /\ UNCHANGED << sensors, sensorObjs, skipTempLoop, disp >>
           ELSE IF rtdSensorId \in DOMAIN sensors
           THEN /\ response' = Failure("RTD sensor already exists")
                /\ UNCHANGED << sensors, sensorObjs, skipTempLoop, disp >>
           ELSE IF csPin < 0
           THEN /\ response' = Failure("Invalid CS pin number")
                /\ UNCHANGED << sensors, sensorObjs, skipTempLoop, disp >>
           ELSE IF ~initOk
           THEN /\ response' = Failure("Failed to initialize MAX31865")
                /\ UNCHANGED << sensors, sensorObjs, skipTempLoop, disp >>
           ELSE /\ sensorObjs' = Append(sensorObjs, NewSensor(rtdSensorId, type, useForControl))
                /\ sensors' = MapPut(sensors, rtdSensorId, ref)
                /\ skipTempLoop' = TRUE
                /\ disp' = [pc |-> "saveWait",
                            request |-> JsonOf(sensors', sensorObjs'),
                            message |-> "RTD sensor added successfully"]
                /\ response' = OkResponse
    /\ UNCHANGED << now, temperature, engineVars, pidLoopTime, invertOutputs, heaters,
                    gpio, ctlTasks, pidTasks, outTasks, aborted, readTask, settingsVars >>

AddNtcSensor(analogPin, useForControl) ==
    /\ ~aborted
    /\ disp.pc = "idle"
    /\ Len(sensorObjs) < MaxSensorObjs
    /\ LET ntcSensorId == NtcBase + analogPin
           ref == Len(sensorObjs) + 1
       IN  IF ntcSensorId \in DOMAIN sensors
           THEN /\ response' = Failure("NTC sensor already exists")
                /\ UNCHANGED << sensors, sensorObjs, skipTempLoop, disp >>
           ELSE IF analogPin < 0
           THEN /\ response' = Failure("Invalid analog pin number")
                /\ UNCHANGED << sensors, sensorObjs, skipTempLoop, disp >>
           ELSE /\ sensorObjs' = Append(sensorObjs, NewSensor(ntcSensorId, "NTC", useForControl))
                /\ sensors' = MapPut(sensors, ntcSensorId, ref)
                /\ skipTempLoop' = TRUE
                /\ disp' = [pc |-> "saveWait",
                            request |-> JsonOf(sensors', sensorObjs'),
                            message |-> "NTC sensor added successfully"]
                /\ response' = OkResponse
    /\ UNCHANGED << now, temperature, engineVars, pidLoopTime, invertOutputs, heaters,
                    gpio, ctlTasks, pidTasks, outTasks, aborted, readTask, settingsVars >>

\* SaveTempSettings with an array: the latch, then the wait
SaveTempSettings(request) ==
    /\ ~aborted
    /\ disp.pc = "idle"
    /\ skipTempLoop' = TRUE
    /\ disp' = [pc |-> "saveWait", request |-> request, message |-> ""]
    /\ response' = OkResponse
    /\ UNCHANGED << now, temperature, engineVars, pidLoopTime, invertOutputs, heaters,
                    gpio, ctlTasks, pidTasks, outTasks, aborted, sensors, sensorObjs,
                    readTask, settingsVars >>

\* first pass: the pin changes of one kind that are queued. An entry's pin is
\* its csPin for an RTD sensor and its analogPin for an NTC sensor; NoPin is a
\* null field.
RECURSIVE PinChanges(_, _, _, _)
PinChanges(request, i, rtd, queued) ==
    IF i > Len(request) THEN queued
    ELSE LET e == request[i]
             base == IF rtd THEN RtdBase ELSE NtcBase
             newSensorId == base + e.pin
             wanted ==
                 /\ e.id \in DOMAIN sensors
                 /\ LET sensor == sensorObjs[sensors[e.id]]
                    IN  IF rtd THEN IsRtd(sensor) ELSE sensor.sensorType = "NTC"
                 /\ e.pin # NoPin
                 /\ e.id - base # e.pin
                 /\ e.pin >= 0
             pinInUse ==
                 \/ newSensorId \in DOMAIN sensors
                 \/ \E c \in DOMAIN queued : queued[c].newSensorId = newSensorId
         IN  PinChanges(request, i + 1, rtd,
                        IF wanted /\ ~pinInUse
                        THEN Append(queued, [oldSensorId |-> e.id,
                                             newSensorId |-> newSensorId,
                                             sensor |-> sensors[e.id]])
                        ELSE queued)

\* second pass: a CS pin change rebinds the device; initOk[i] is whether the
\* new device of change i initialises
RECURSIVE ApplyCsChanges(_, _, _, _)
ApplyCsChanges(reg, changes, i, initOk) ==
    IF i > Len(changes) THEN reg
    ELSE LET c == changes[i]
             objs == [reg.objs EXCEPT ![c.sensor] =
                         IF initOk[i]
                         THEN [@ EXCEPT !.id = c.newSensorId, !.spi = TRUE,
                                        !.connected = TRUE, !.consecutiveFailures = 0]
                         ELSE [@ EXCEPT !.id = c.oldSensorId, !.spi = FALSE,
                                        !.connected = FALSE]]
         IN  ApplyCsChanges([map |-> MapPut(MapErase(reg.map, c.oldSensorId),
                                            objs[c.sensor].id, c.sensor),
                             objs |-> objs],
                            changes, i + 1, initOk)

\* third pass: an analog pin change
RECURSIVE ApplyAnalogChanges(_, _, _)
ApplyAnalogChanges(reg, changes, i) ==
    IF i > Len(changes) THEN reg
    ELSE LET c == changes[i]
             objs == [reg.objs EXCEPT ![c.sensor].id = c.newSensorId]
         IN  ApplyAnalogChanges([map |-> MapPut(MapErase(reg.map, c.oldSensorId),
                                                c.newSensorId, c.sensor),
                                 objs |-> objs],
                                changes, i + 1)

\* last pass: the sensors the request does not list, but for the changed ones
SensorsToDelete(reg, request, changed) ==
    { reg.objs[reg.map[k]].id : k \in
        { k \in DOMAIN reg.map :
            /\ reg.map[k] \notin changed
            /\ \A i \in DOMAIN request : request[i].id # reg.objs[reg.map[k]].id } }

SavedRegistry(request, initOk) ==
    LET csPinChanges == PinChanges(request, 1, TRUE, << >>)
        analogPinChanges == PinChanges(request, 1, FALSE, << >>)
        changed == { csPinChanges[i].sensor : i \in DOMAIN csPinChanges }
                       \cup { analogPinChanges[i].sensor : i \in DOMAIN analogPinChanges }
        rebound == ApplyCsChanges([map |-> sensors, objs |-> sensorObjs],
                                  csPinChanges, 1, initOk)
        rekeyed == ApplyAnalogChanges(rebound, analogPinChanges, 1)
        gone == SensorsToDelete(rekeyed, request, changed)
    IN  [map |-> [k \in DOMAIN rekeyed.map \ gone |-> rekeyed.map[k]],
         objs |-> rekeyed.objs]

\* saveTempSensorSettings after the wait, to its end
SaveApply(initOk) ==
    /\ ~aborted
    /\ disp.pc = "saveWait"
    /\ readTask.pc # "iter"
    /\ LET reg == SavedRegistry(disp.request, initOk)
       IN  /\ sensors' = reg.map
           /\ sensorObjs' = reg.objs
    /\ skipTempLoop' = FALSE
    /\ response' = [success |-> TRUE, message |-> disp.message]
    /\ disp' = Idle
    /\ UNCHANGED << now, temperature, engineVars, pidLoopTime, invertOutputs, heaters,
                    gpio, ctlTasks, pidTasks, outTasks, aborted, readTask, settingsVars >>

\* DetectTempSensors: the latch, then the wait
DetectTempSensors ==
    /\ ~aborted
    /\ disp.pc = "idle"
    /\ skipTempLoop' = TRUE
    /\ disp' = [pc |-> "detectWait", request |-> << >>, message |-> ""]
    /\ response' = OkResponse
    /\ UNCHANGED << now, temperature, engineVars, pidLoopTime, invertOutputs, heaters,
                    gpio, ctlTasks, pidTasks, outTasks, aborted, sensors, sensorObjs,
                    readTask, settingsVars >>

\* the search of the bus: every address found gets a sensor, or reconnects the
\* entry that has its key
RECURSIVE Detected(_, _)
Detected(reg, found) ==
    IF found = {} THEN reg
    ELSE LET address == CHOOSE a \in found : \A x \in found : a <= x
             next ==
                 IF address \in DOMAIN reg.map
                 THEN [reg EXCEPT !.objs[reg.map[address]].connected = TRUE]
                 ELSE [map |-> MapPut(reg.map, address, Len(reg.objs) + 1),
                       objs |-> Append(reg.objs, NewSensor(address, "DS18B20", TRUE))]
         IN  Detected(next, found \ {address})

\* detectOnewireTemperatureSensors after the wait, to its end; `iterOk` is
\* whether the bus iterator could be made, `found` the devices that answer
DetectApply(iterOk, found) ==
    /\ ~aborted
    /\ disp.pc = "detectWait"
    /\ readTask.pc # "iter"
    /\ Len(sensorObjs) + Cardinality(found \ DOMAIN sensors) <= MaxSensorObjs
    /\ LET reg == IF iterOk
                  THEN Detected([map |-> sensors, objs |-> sensorObjs], found)
                  ELSE [map |-> sensors, objs |-> sensorObjs]
       IN  /\ sensors' = reg.map
           /\ sensorObjs' = reg.objs
    /\ skipTempLoop' = FALSE
    /\ disp' = Idle
    /\ UNCHANGED << now, temperature, engineVars, pidLoopTime, invertOutputs, heaters,
                    gpio, ctlTasks, pidTasks, outTasks, aborted, readTask, response,
                    settingsVars >>

\* ---------------------------------------------------------------- bus devices

\* the sensors with the devices they are bound to. A device is what
\* spi_bus_add_device or ds18b20_new_device created; a handle names it by its
\* position in `devices` (0 is the null pointer), `releases` counts the calls
\* that removed it, and `measuredAfterRelease` tells that max31865_measure went
\* through it after it was removed.

\* devices added over one behaviour
MaxDevices == 3

\* the results of new max31865_t, max31865_init_desc and max31865_set_config:
\* both succeed, the device is added and the configuration fails, or the device
\* is not added
InitOutcomes == {"ok", "configFails", "addFails"}

\* memset(&max31865Handle, 0, sizeof(max31865_t))
NullHandle == [spi |-> 0, rtd_nominal |-> 0, ref_resistor |-> 0]

\* max31865_init_desc: the descriptor of a device just added
max31865_init_desc(spi) == [spi |-> spi, rtd_nominal |-> 100, ref_resistor |-> 430]

\* "Set RTD parameters based on sensor type"
TypedHandle(handle, type) ==
    IF type = "PT100"
    THEN [handle EXCEPT !.rtd_nominal = 100, !.ref_resistor = 430]
    ELSE IF type = "PT1000"
    THEN [handle EXCEPT !.rtd_nominal = 1000, !.ref_resistor = 4300]
    ELSE handle

\* TemperatureSensor::from_json and the constructor: no handle yet
BusSensor(id, type) ==
    [id |-> id, sensorType |-> type, connected |-> TRUE, consecutiveFailures |-> 0,
     max31865Handle |-> NullHandle, ds18b20Handle |-> 0]

\* spi_bus_add_device, ds18b20_new_device
AddDevice(devs, bus, pin) ==
    Append(devs, [bus |-> bus, pin |-> pin, attached |-> TRUE, releases |-> 0,
                  measuredAfterRelease |-> FALSE])

\* spi_bus_remove_device
RemoveDevice(devs, d) ==
    [devs EXCEPT ![d] = [@ EXCEPT !.attached = FALSE, !.releases = @ + 1]]

\* std::vector::erase of position i
EraseAt(list, i) == [j \in 1..(Len(list) - 1) |-> IF j < i THEN list[j] ELSE list[j + 1]]

\* the plant the sensor code works on: the sensor objects, the devices and the
\* list of descriptors
Plant(objs, devs, list) == [sensorObjs |-> objs, devices |-> devs, rtdSensors |-> list]

\* new max31865_t, max31865_init_desc, max31865_set_config, and on success the
\* resistances (those of the type where the caller sets them, the defaults of
\* max31865_init_desc where it does not), the copy into the sensor and the push
\* onto rtdSensors; `bound` is the sensor as the caller leaves it on success
NewRtdDevice(plant, ref, csPin, outcome, typed, bound) ==
    IF outcome = "addFails"
    THEN [plant |-> plant, ok |-> FALSE]
    ELSE LET added == AddDevice(plant.devices, "spi", csPin)
             desc == max31865_init_desc(Len(added))
             handle == IF typed THEN TypedHandle(desc, bound.sensorType) ELSE desc
         IN  IF outcome = "configFails"
             THEN [plant |-> [plant EXCEPT !.devices = added], ok |-> FALSE]
             ELSE [plant |-> Plant([plant.sensorObjs EXCEPT ![ref] =
                                       [bound EXCEPT !.max31865Handle = handle]],
                                   added,
                                   Append(plant.rtdSensors, handle)),
                   ok |-> TRUE]

\* the first of the descriptors of rtdSensors at the positions `hits` (those the
\* caller's loop test accepts), removed from the bus (when its spi is not null)
\* and from the list
ReleaseFirst(plant, hits) ==
    IF hits = {} THEN plant
    ELSE LET i == CHOOSE x \in hits : \A y \in hits : x <= y
             spi == plant.rtdSensors[i].spi
         IN  [plant EXCEPT !.devices = IF spi # 0 THEN RemoveDevice(@, spi) ELSE @,
                           !.rtdSensors = EraseAt(@, i)]

\* reinitializeRtdSensor: the old device is looked up by its spi pointer
reinitializeRtdSensor(plant, ref, outcome) ==
    LET sensor == plant.sensorObjs[ref]
        sameSpi == { i \in DOMAIN plant.rtdSensors :
                       plant.rtdSensors[i].spi = sensor.max31865Handle.spi }
        cleaned == IF sensor.max31865Handle.spi # 0
                   THEN ReleaseFirst(plant, sameSpi)
                   ELSE plant
    IN  NewRtdDevice(cleaned, ref, sensor.id - RtdBase, outcome, TRUE,
                     [sensor EXCEPT !.consecutiveFailures = 0, !.connected = FALSE])

\* readLoop: the body of the range-for for an RTD sensor, with the devices
ReadRtdOnBus(plant, ref, measured, outcome) ==
    LET sensor == plant.sensorObjs[ref]
        spi == sensor.max31865Handle.spi
        failed == [sensor EXCEPT !.connected = FALSE, !.consecutiveFailures = @ + 1]
        counted == [plant EXCEPT !.sensorObjs[ref] = failed]
        retried == reinitializeRtdSensor(counted, ref, outcome).plant
        reset == [retried EXCEPT !.sensorObjs[ref].consecutiveFailures = 0]
    IN  IF spi = 0
        THEN IF failed.consecutiveFailures >= ReinitAfterNullHandle THEN reset ELSE counted
        ELSE LET used == [plant EXCEPT !.devices[spi].measuredAfterRelease =
                                           @ \/ ~plant.devices[spi].attached]
                 usedCounted == [used EXCEPT !.sensorObjs[ref] = failed]
                 usedRetried == reinitializeRtdSensor(usedCounted, ref, outcome).plant
             IN  IF measured
                 THEN [used EXCEPT !.sensorObjs[ref] =
                          [sensor EXCEPT !.connected = TRUE, !.consecutiveFailures = 0]]
                 ELSE IF failed.consecutiveFailures >= ReinitAfterFailures
                 THEN [usedRetried EXCEPT !.sensorObjs[ref].consecutiveFailures = 0]
                 ELSE usedCounted

\* cleanupRtdSensors: every descriptor of the list is removed from the bus
RECURSIVE cleanupRtdSensors(_, _)
cleanupRtdSensors(devs, list) ==
    IF list = << >> THEN devs
    ELSE cleanupRtdSensors(IF Head(list).spi # 0 THEN RemoveDevice(devs, Head(list).spi)
                           ELSE devs,
                           Tail(list))

\* the keys of a set in the order of the std::map
RECURSIVE InKeyOrder(_)
InKeyOrder(keys) ==
    IF keys = {} THEN << >>
    ELSE LET k == CHOOSE x \in keys : \A y \in keys : x <= y
         IN  << k >> \o InKeyOrder(keys \ {k})

\* detectRtdTemperatureSensors: the loop over the RTD sensors of the map
RECURSIVE DetectedRtd(_, _, _)
DetectedRtd(plant, keys, outcomes) ==
    IF keys = << >> THEN plant
    ELSE LET key == Head(keys)
             ref == sensors[key]
             sensor == plant.sensorObjs[ref]
             new == NewRtdDevice(plant, ref, key - RtdBase, outcomes[key], TRUE,
                                 [sensor EXCEPT !.consecutiveFailures = 0,
                                                !.connected = TRUE])
             next == IF new.ok THEN new.plant
                     ELSE [new.plant EXCEPT !.sensorObjs[ref].connected = FALSE]
         IN  DetectedRtd(next, Tail(keys), outcomes)

RtdKeys == { k \in DOMAIN sensors : IsRtd(sensorObjs[sensors[k]]) }

\* what an action on the bus devices leaves alone
BusFrame ==
    UNCHANGED << now, temperature, engineVars, pidLoopTime, invertOutputs, heaters, gpio,
                 ctlTasks, pidTasks, outTasks, aborted, skipTempLoop, readTask, disp,
                 nvs, nvsOpen, lastRead, sinceReset, lastWrite, statVars, savedSchedule,
                 stir, stirTasks, stirPin >>

\* detectRtdTemperatureSensors, with the SPI pins configured
DetectRtdOnBus(outcomes) ==
    /\ ~aborted
    /\ Len(devices) + Cardinality(RtdKeys) <= MaxDevices
    /\ LET cleaned == Plant(sensorObjs, cleanupRtdSensors(devices, rtdSensors), << >>)
           done == DetectedRtd(cleaned, InKeyOrder(RtdKeys), outcomes)
       IN  /\ sensorObjs' = done.sensorObjs
           /\ devices' = done.devices
           /\ rtdSensors' = done.rtdSensors
    /\ UNCHANGED << sensors, response >>
    /\ BusFrame

\* detectOnewireTemperatureSensors finding one DS18B20 at `address`
DetectOneWireOnBus(address) ==
    /\ ~aborted
    /\ Len(devices) < MaxDevices
    /\ IF address \in DOMAIN sensors
       THEN /\ devices' = AddDevice(devices, "onewire", address)
            /\ sensorObjs' = [sensorObjs EXCEPT ![sensors[address]] =
                                 [@ EXCEPT !.ds18b20Handle = Len(devices) + 1,
                                           !.connected = TRUE]]
            /\ UNCHANGED sensors
       ELSE /\ Len(sensorObjs) < MaxSensorObjs
            /\ devices' = AddDevice(devices, "onewire", address)
            /\ sensorObjs' = Append(sensorObjs,
                                    [BusSensor(address, "DS18B20") EXCEPT
                                        !.ds18b20Handle = Len(devices) + 1])
            /\ sensors' = MapPut(sensors, address, Len(sensorObjs) + 1)
    /\ UNCHANGED << rtdSensors, response >>
    /\ BusFrame

\* processCommand "AddRtdSensor", with the devices; the saveTempSensorSettings
\* it ends with lists every sensor as it is
AddRtdSensorOnBus(csPin, type, outcome) ==
    /\ ~aborted
    /\ Len(devices) < MaxDevices
    /\ Len(sensorObjs) < MaxSensorObjs
    /\ IF RtdBase + csPin \in DOMAIN sensors
       THEN /\ response' = Failure("RTD sensor already exists")
            /\ UNCHANGED << sensors, sensorObjs, devices, rtdSensors >>
       ELSE LET ref == Len(sensorObjs) + 1
                sensor == BusSensor(RtdBase + csPin, type)
                new == NewRtdDevice(Plant(Append(sensorObjs, sensor), devices, rtdSensors),
                                    ref, csPin, outcome, TRUE, sensor)
            IN  IF new.ok
                THEN /\ response' = OkResponse
                     /\ sensorObjs' = new.plant.sensorObjs
                     /\ devices' = new.plant.devices
                     /\ rtdSensors' = new.plant.rtdSensors
                     /\ sensors' = MapPut(sensors, RtdBase + csPin, ref)
                ELSE /\ response' = Failure("Failed to initialize RTD sensor")
                     /\ devices' = new.plant.devices
                     /\ UNCHANGED << sensors, sensorObjs, rtdSensors >>
    /\ BusFrame

\* readLoop: the visit of the RTD sensor under `key`
ReadRtdTick(key, measured, outcome) ==
    /\ ~aborted
    /\ key \in RtdKeys
    /\ Len(devices) < MaxDevices
    /\ LET done == ReadRtdOnBus(Plant(sensorObjs, devices, rtdSensors), sensors[key],
                                measured, outcome)
       IN  /\ sensorObjs' = done.sensorObjs
           /\ devices' = done.devices
           /\ rtdSensors' = done.rtdSensors
    /\ UNCHANGED << sensors, response >>
    /\ BusFrame

\* saveTempSensorSettings, second pass: the CS pin change of one RTD sensor.
\* The old descriptor is looked up by memcmp with the sensor's copy; the new
\* one keeps the resistances of max31865_init_desc.
CsPinChanged(plant, ref, newCsPin, outcome) ==
    LET sensor == plant.sensorObjs[ref]
        sameBytes == { i \in DOMAIN plant.rtdSensors :
                         plant.rtdSensors[i] = sensor.max31865Handle }
        cleaned == ReleaseFirst(plant, sameBytes)
        renamed == [sensor EXCEPT !.id = RtdBase + newCsPin, !.max31865Handle = NullHandle]
        cleared == [cleaned EXCEPT !.sensorObjs[ref] = renamed]
        new == NewRtdDevice(cleared, ref, newCsPin, outcome, FALSE,
                            [renamed EXCEPT !.connected = TRUE, !.consecutiveFailures = 0])
    IN  IF new.ok THEN new.plant
        ELSE [new.plant EXCEPT !.sensorObjs[ref] =
                 [renamed EXCEPT !.connected = FALSE, !.id = sensor.id]]

\* saveTempSensorSettings, last pass: the sensors to delete lose their
\* descriptor and device if they are RTD sensors, and their entry of the map
RECURSIVE Erased(_, _)
Erased(plant, refs) ==
    IF refs = << >> THEN plant
    ELSE LET sensor == plant.sensorObjs[Head(refs)]
             sameBytes == { i \in DOMAIN plant.rtdSensors :
                              plant.rtdSensors[i] = sensor.max31865Handle }
         IN  Erased(IF IsRtd(sensor) THEN ReleaseFirst(plant, sameBytes) ELSE plant,
                    Tail(refs))

\* saveTempSensorSettings with a request that lists the sensors under `listed`
\* as they are, but for `moved` (0 for none), which it lists with newCsPin
SaveTempSettingsOnBus(listed, moved, newCsPin, outcome) ==
    /\ ~aborted
    /\ Len(devices) < MaxDevices
    /\ listed \subseteq DOMAIN sensors
    /\ moved # 0 =>
          /\ moved \in listed \cap RtdKeys
          /\ moved # RtdBase + newCsPin
          /\ RtdBase + newCsPin \notin DOMAIN sensors
    /\ LET plant == Plant(sensorObjs, devices, rtdSensors)
           changed == IF moved = 0 THEN plant
                      ELSE CsPinChanged(plant, sensors[moved], newCsPin, outcome)
           keyed == IF moved = 0 THEN sensors
                    ELSE MapPut(MapErase(sensors, moved),
                                changed.sensorObjs[sensors[moved]].id, sensors[moved])
           gone == { k \in DOMAIN keyed :
                       k \notin listed /\ (moved = 0 \/ keyed[k] # sensors[moved]) }
           order == InKeyOrder(gone)
           done == Erased(changed, [i \in 1..Len(order) |-> keyed[order[i]]])
       IN  /\ sensorObjs' = done.sensorObjs
           /\ devices' = done.devices
           /\ rtdSensors' = done.rtdSensors
           /\ sensors' = [k \in DOMAIN keyed \ gone |-> keyed[k]]
    /\ response' = OkResponse
    /\ BusFrame

\* ---------------------------------------------------------------- settings

\* SettingsManager over the NVS partition. A value type is stored under an NVS
\* type: bool and uint8_t both as u8. Numbers are small, a bool is 0 or 1, a
\* string or a byte vector is a sequence.
ValueTypes == {"bool", "uint8", "int8", "uint16", "string", "vector"}
NoWrite == [key |-> "", type |-> "none", value |-> << >>]
NvsType(type) ==
    CASE type \in {"bool", "uint8"} -> "u8"
      [] type = "int8" -> "i8"
      [] type = "uint16" -> "u16"
      [] type = "string" -> "str"
      [] OTHER -> "blob"
ValuesOf(type) ==
    CASE type \in {"string", "vector"} -> {<< >>, << 7 >>}
      [] OTHER -> {0, 1}

\* nvs_set_str takes a string of up to StrMaxBytes bytes, its terminator
\* included, and answers VALUE_TOO_LONG for a longer one; Write stores a string
\* as a blob when it is longer than LongString characters
StrMaxBytes == 4000
LongString == 4000
Text(n) == [i \in 1..n |-> 7]
LongTexts == {Text(StrMaxBytes - 1), Text(LongString), Text(LongString + 1)}

\* nvs_get_*: what the call gives for a key and an NVS type. A handle that is
\* not usable gives an error; an entry of another type is not found, or is an
\* error (mismatchIsError), as the library has it.
NvsGet(key, nvsType, mismatchIsError) ==
    IF ~nvsOpen THEN "error"
    ELSE IF nvs[key].type = nvsType THEN "ok"
    ELSE IF nvs[key].type # "none" /\ mismatchIsError THEN "error"
    ELSE "notfound"

\* nvs_set_*: an error is logged and nothing is stored
NvsSet(key, nvsType, value) ==
    IF nvsOpen
    THEN [nvs EXCEPT ![key] = [type |-> nvsType, value |-> value]]
    ELSE nvs

\* SettingsManager::Write: the store after the call. A string that nvs_set_str
\* refuses is stored as a blob, with its terminator, if it is long.
Written(key, type, value) ==
    IF type # "string" THEN NvsSet(key, NvsType(type), value)
    ELSE IF Len(value) + 1 <= StrMaxBytes THEN NvsSet(key, "str", value)
    ELSE IF Len(value) > LongString THEN NvsSet(key, "blob", Append(value, 0))
    ELSE nvs

\* SettingsManager::Read, the overloads for bool, uint8_t, int8_t and uint16_t:
\* the result and the store after the call
ReadNumber(key, type, default, mismatchIsError) ==
    LET err == NvsGet(key, NvsType(type), mismatchIsError)
    IN  IF err = "notfound"
        THEN [result |-> default, nvs |-> NvsSet(key, NvsType(type), default)]
        ELSE IF err = "ok"
        THEN [result |-> IF type = "bool"
                         THEN (IF nvs[key].value # 0 THEN 1 ELSE 0)
                         ELSE nvs[key].value,
              nvs |-> nvs]
        ELSE [result |-> 0, nvs |-> nvs]

\* SettingsManager::Read for a string and for a byte vector: a size of 0 (no
\* entry, an error, an empty vector) saves and returns the default
ReadSized(key, type, default, mismatchIsError) ==
    LET err == NvsGet(key, NvsType(type), mismatchIsError)
        size == IF err # "ok" THEN 0
                ELSE IF type = "string" THEN Len(nvs[key].value) + 1
                ELSE Len(nvs[key].value)
        \* the string overload, after an error: a value stored as a blob, less
        \* its last byte
        asBlob == /\ type = "string" /\ err = "error" /\ nvsOpen
                  /\ nvs[key].type = "blob" /\ Len(nvs[key].value) > 0
    IN  IF asBlob
        THEN [result |-> SubSeq(nvs[key].value, 1, Len(nvs[key].value) - 1), nvs |-> nvs]
        ELSE IF size = 0
        THEN [result |-> default, nvs |-> Written(key, type, default)]
        ELSE [result |-> nvs[key].value, nvs |-> nvs]

SettingsResult(key, type, default, mismatchIsError) ==
    IF type \in {"string", "vector"}
    THEN ReadSized(key, type, default, mismatchIsError)
    ELSE ReadNumber(key, type, default, mismatchIsError)

SettingsRead(key, type, default, mismatchIsError) ==
    /\ ~aborted
    /\ LET r == SettingsResult(key, type, default, mismatchIsError)
       IN  /\ lastRead' = [type |-> type, default |-> default, result |-> r.result]
           /\ nvs' = r.nvs
    /\ lastWrite' = NoWrite
    /\ UNCHANGED << now, temperature, engineVars, pidLoopTime, invertOutputs, heaters,
                    gpio, ctlTasks, pidTasks, outTasks, aborted, sensorVars, response,
                    nvsOpen, sinceReset, statVars, savedSchedule, plantVars >>

\* SettingsManager::Write
SettingsWrite(key, type, value) ==
    /\ ~aborted
    /\ nvs' = Written(key, type, value)
    /\ sinceReset' = FALSE
    /\ lastWrite' = [key |-> key, type |-> type, value |-> value]
    /\ UNCHANGED << now, temperature, engineVars, pidLoopTime, invertOutputs, heaters,
                    gpio, ctlTasks, pidTasks, outTasks, aborted, sensorVars, response,
                    nvsOpen, lastRead, statVars, savedSchedule, plantVars >>

NoRead == [type |-> "none", default |-> << >>, result |-> << >>]

\* SettingsManager::FactoryReset: nvs_flash_erase, nvs_flash_init. nvsHandle is
\* the one Init() opened before the erase: whether it is still usable is the
\* library's matter (handleKept).
FactoryReset(handleKept) ==
    /\ ~aborted
    /\ nvs' = [k \in SettingKeys |-> NoEntry]
    /\ nvsOpen' = (nvsOpen /\ handleKept)
    /\ lastRead' = NoRead
    /\ sinceReset' = TRUE
    /\ lastWrite' = NoWrite
    /\ UNCHANGED << now, temperature, engineVars, pidLoopTime, invertOutputs, heaters,
                    gpio, ctlTasks, pidTasks, outTasks, aborted, sensorVars, response,
                    statVars, savedSchedule, plantVars >>

\* SettingsManager::Init after the restart: nvs_open
SettingsInit ==
    /\ ~aborted
    /\ nvsOpen' = TRUE
    /\ lastWrite' = NoWrite
    /\ UNCHANGED << now, temperature, engineVars, pidLoopTime, invertOutputs, heaters,
                    gpio, ctlTasks, pidTasks, outTasks, aborted, sensorVars, response,
                    nvs, lastRead, sinceReset, statVars, savedSchedule, plantVars >>

\* ---------------------------------------------------------------- statistics

\* StatisticsManager keeps its sessions in the settings: "stat_count",
\* "stat_next_id", "stat_max", and "session_<id>" and "data_<id>" per session
\* (statNvs.count, .nextId, .max, .session[id], .data[id]). A BrewSession and a
\* TempDataPoint are stored as their cells, one cell per field; the schedule
\* name is left out. avgTemperature is the quotient of two cells, and
\* totalDuration is kept as the difference (a uint32_t holds it modulo 2^32).
DEFAULT_MAX_SESSIONS == 10
SizeofSession == 10
SizeofPoint == 4
Times == {1, 2}
Samples == {60, 64}
MaxSessionsValues == {0, 1, 2}

\* SettingsManager::Read of a number and of a byte vector on a usable handle:
\* the value returned, and the entry after the call (a missing entry, or an
\* empty vector, is written with the default)
NumValue(entry, default) == IF entry.present THEN entry.value ELSE default
NumRead(entry, default) == Present(NumValue(entry, default))
VecValue(entry) == IF entry.present THEN entry.value ELSE << >>
VecRead(entry) == Present(VecValue(entry))

SessionBytes(session) ==
    << session.sessionId, session.startTime, session.endTime, session.dataPoints,
       session.avgTemperature.sum, session.avgTemperature.size,
       session.maxTemperature, session.minTemperature, session.totalDuration,
       IF session.completed THEN 1 ELSE 0 >>

SessionOf(bytes) ==
    [sessionId |-> bytes[1], startTime |-> bytes[2], endTime |-> bytes[3],
     dataPoints |-> bytes[4], avgTemperature |-> [sum |-> bytes[5], size |-> bytes[6]],
     maxTemperature |-> bytes[7], minTemperature |-> bytes[8],
     totalDuration |-> bytes[9], completed |-> bytes[10] # 0]

RECURSIVE PointBytes(_)
PointBytes(data) ==
    IF data = << >> THEN << >>
    ELSE << Head(data).timestamp, Head(data).avgTemp, Head(data).targetTemp,
            Head(data).pidOutput >> \o PointBytes(Tail(data))

\* StatisticsManager::loadAndDecompressSessionData
PointsOf(binaryData) ==
    [i \in 1..(Len(binaryData) \div SizeofPoint) |->
        [timestamp |-> binaryData[(i - 1) * SizeofPoint + 1],
         avgTemp |-> binaryData[(i - 1) * SizeofPoint + 2],
         targetTemp |-> binaryData[(i - 1) * SizeofPoint + 3],
         pidOutput |-> binaryData[(i - 1) * SizeofPoint + 4]]]

\* StatisticsManager::GetSessionData: the result
GetSessionData(sessionId) == PointsOf(VecValue(statNvs.data[sessionId]))

\* the loop of calculateSessionStats with minTemp and maxTemp starting at 0
RECURSIVE StatsLoopFromZero(_, _)
StatsLoopFromZero(data, i) ==
    IF i = 0
    THEN [sum |-> 0, minTemp |-> 0, maxTemp |-> 0]
    ELSE LET before == StatsLoopFromZero(data, i - 1)
             point == data[i]
         IN  [sum |-> before.sum + point.avgTemp,
              minTemp |-> IF point.avgTemp < before.minTemp
                          THEN point.avgTemp ELSE before.minTemp,
              maxTemp |-> IF before.maxTemp < point.avgTemp
                          THEN point.avgTemp ELSE before.maxTemp]

\* StatisticsManager::calculateSessionStats: sum, minTemp and maxTemp after the
\* loop has visited the first i points
RECURSIVE StatsLoop(_, _)
StatsLoop(data, i) ==
    IF i = 0
    THEN [sum |-> 0, minTemp |-> data[1].avgTemp, maxTemp |-> data[1].avgTemp]
    ELSE LET before == StatsLoop(data, i - 1)
             point == data[i]
         IN  [sum |-> before.sum + point.avgTemp,
              minTemp |-> IF point.avgTemp < before.minTemp
                          THEN point.avgTemp ELSE before.minTemp,
              maxTemp |-> IF before.maxTemp < point.avgTemp
                          THEN point.avgTemp ELSE before.maxTemp]

calculateSessionStats(session, data) ==
    IF data = << >>
    THEN [session EXCEPT !.avgTemperature = [sum |-> 0, size |-> 1],
                         !.maxTemperature = 0, !.minTemperature = 0]
    ELSE LET stats == StatsLoop(data, Len(data))
         IN  [session EXCEPT !.avgTemperature = [sum |-> stats.sum, size |-> Len(data)],
                             !.minTemperature = stats.minTemp,
                             !.maxTemperature = stats.maxTemp]

\* StatisticsManager::GetMaxSessions: the result
GetMaxSessions(store) == NumValue(store.max, DEFAULT_MAX_SESSIONS)

SessionCount(store) == NumValue(store.count, 0)
NextSessionId(store) == NumValue(store.nextId, 1)

\* StatisticsManager::GetSessionList: the ids of the sessions returned, and the
\* store after the call
Listed(store) ==
    IF SessionCount(store) = 0 THEN {}
    ELSE { id \in 1..(NextSessionId(store) - 1) :
               Len(VecValue(store.session[id])) >= SizeofSession }

AfterList(store) ==
    IF SessionCount(store) = 0 THEN [store EXCEPT !.count = NumRead(@, 0)]
    ELSE [store EXCEPT !.count = NumRead(@, 0), !.nextId = NumRead(@, 1),
                       !.session = [id \in DOMAIN @ |->
                                       IF id < NextSessionId(store)
                                       THEN VecRead(@[id]) ELSE @[id]]]

GetSessionList == { SessionOf(statNvs.session[id].value) : id \in Listed(statNvs) }

StartTimeOf(store, id) == SessionOf(store.session[id].value).startTime

\* the orders std::sort may leave the listed sessions in, oldest start first
OldestFirst(store) ==
    LET ids == Listed(store)
        n == Cardinality(ids)
        startTime == [id \in ids |-> StartTimeOf(store, id)]
    IN  { order \in [1..n -> ids] :
            /\ \A i, j \in 1..n : i # j => order[i] # order[j]
            /\ \A i, j \in 1..n :
                   i < j => ~(startTime[order[j]] < startTime[order[i]]) }

NewestFirst(store) ==
    LET ids == Listed(store)
        n == Cardinality(ids)
        startTime == [id \in ids |-> StartTimeOf(store, id)]
    IN  { order \in [1..n -> ids] :
            /\ \A i, j \in 1..n : i # j => order[i] # order[j]
            /\ \A i, j \in 1..n :
                   i < j => ~(startTime[order[i]] < startTime[order[j]]) }

SortedSessions(store) == OldestFirst(store)

\* StatisticsManager::cleanupOldSessions: the store after the call, `sessions`
\* being the sorted list
cleanupOldSessions(store, sessions) ==
    LET read == [store EXCEPT !.max = NumRead(@, DEFAULT_MAX_SESSIONS),
                              !.count = NumRead(@, 0)]
        maxSessions == GetMaxSessions(read)
        sessionCount == SessionCount(read)
        sessionsToRemove == sessionCount - maxSessions
        removed == { sessions[i] : i \in { k \in 1..Len(sessions) : k <= sessionsToRemove } }
        listed == AfterList(read)
    IN  IF sessionCount <= maxSessions THEN read
        ELSE [listed EXCEPT
                 !.session = [id \in DOMAIN @ |->
                                 IF id \in removed THEN Present(<< >>) ELSE @[id]],
                 !.data = [id \in DOMAIN @ |->
                              IF id \in removed THEN Present(<< >>) ELSE @[id]],
                 !.count = Present(maxSessions)]

\* StatisticsManager::EndSession with a session active: the store before the
\* cleanup
Recorded(endTime) ==
    LET session == calculateSessionStats(
                       [sessionId |-> currentSessionId,
                        startTime |-> sessionStartTime,
                        endTime |-> endTime,
                        dataPoints |-> Len(currentSessionData) % 65536,
                        avgTemperature |-> [sum |-> 0, size |-> 1],
                        maxTemperature |-> 0, minTemperature |-> 0,
                        totalDuration |-> endTime - sessionStartTime,
                        completed |-> TRUE],
                       currentSessionData)
        stored == [statNvs EXCEPT
                      !.session[currentSessionId] = Present(SessionBytes(session)),
                      !.data[currentSessionId] =
                          IF currentSessionData = << >> THEN @
                          ELSE Present(PointBytes(currentSessionData))]
    IN  [stored EXCEPT !.count = Present((NumValue(@, 0) + 1) % 65536)]

EngineFrame ==
    UNCHANGED << now, engineVars, pidLoopTime, invertOutputs, heaters,
                 gpio, ctlTasks, pidTasks, outTasks, aborted, sensorVars, response,
                 nvs, nvsOpen, lastRead, sinceReset, lastWrite, savedSchedule, plantVars >>

StatFrame ==
    UNCHANGED << now, temperature, engineVars, pidLoopTime, invertOutputs, heaters,
                 gpio, ctlTasks, pidTasks, outTasks, aborted, sensorVars, response,
                 nvs, nvsOpen, lastRead, sinceReset, lastWrite, savedSchedule, plantVars >>

\* StatisticsManager::EndSession: what the call does to the manager
SessionEnded(endTime) ==
    IF ~sessionActive
    THEN UNCHANGED statVars
    ELSE /\ LET recorded == Recorded(endTime)
            IN  \E sessions \in SortedSessions(recorded) :
                    statNvs' = cleanupOldSessions(recorded, sessions)
         /\ sessionActive' = FALSE
         /\ currentSessionId' = 0
         /\ currentSessionData' = << >>
         /\ UNCHANGED << sessionStartTime, maxRequested >>

\* StatisticsManager::EndSession, called on its own
EndSession(endTime) ==
    /\ ~aborted
    /\ SessionEnded(endTime)
    /\ StatFrame

\* StatisticsManager::getNextSessionId: the store after the call
NextIdTaken(store) ==
    [store EXCEPT !.nextId = Present((NextSessionId(store) + 1) % 65536)]

\* StatisticsManager::StartSession: a session that is active is ended first
SessionStarted(startTime) ==
    /\ NextSessionId(statNvs) <= MaxSessionIds
    /\ LET recorded == IF sessionActive THEN Recorded(startTime) ELSE statNvs
       IN  \E sessions \in SortedSessions(recorded) :
               LET ended == IF sessionActive
                            THEN cleanupOldSessions(recorded, sessions)
                            ELSE statNvs
               IN  /\ currentSessionId' = NextSessionId(ended)
                   /\ statNvs' = NextIdTaken(ended)
    /\ sessionActive' = TRUE
    /\ sessionStartTime' = startTime
    /\ currentSessionData' = << >>
    /\ UNCHANGED maxRequested

\* StatisticsManager::StartSession, called on its own
StartSession(startTime) ==
    /\ ~aborted
    /\ SessionStarted(startTime)
    /\ StatFrame

\* processCommand "Start", whole: the schedule name, start(), and
\* statisticsManager->StartSession, which the handler calls whether or not
\* start() found the engine running
CmdStartRecorded(name, limit) ==
    /\ StartRequest(name, limit)
    /\ SessionStarted(now)

\* processCommand "Stop", whole: stop() and statisticsManager->EndSession
CmdStopRecorded ==
    /\ StopRequest
    /\ SessionEnded(now)

\* StatisticsManager::AddDataPoint: what the call does to the manager
PointAdded(timestamp, avgTemp, targetTemp, pidOutput_) ==
    /\ Len(currentSessionData) < MaxPoints
    /\ currentSessionData' =
           IF ~sessionActive THEN currentSessionData
           ELSE Append(currentSessionData,
                       [timestamp |-> timestamp, avgTemp |-> avgTemp,
                        targetTemp |-> targetTemp, pidOutput |-> pidOutput_])
    /\ UNCHANGED << sessionActive, currentSessionId, sessionStartTime, statNvs,
                    maxRequested >>

\* StatisticsManager::AddDataPoint, called on its own
AddDataPoint(timestamp, avgTemp, targetTemp, pidOutput_) ==
    /\ ~aborted
    /\ PointAdded(timestamp, avgTemp, targetTemp, pidOutput_)
    /\ StatFrame

\* (int8_t) of an integer: the value modulo 2^8, in -128..127
Int8(x) == ((x + 128) % 256) - 128

\* (int8_t) of the float average: the integer part where int8_t can hold it;
\* beyond that the conversion is undefined, and a build gives the low byte of
\* the truncated value or the nearest limit, and anything at all for NaN
Int8OfFloat(x) ==
    IF x = NaN THEN {-128, 0, 127}
    ELSE IF x \in -128..127 THEN {x}
    ELSE {Int8(x), IF x > 127 THEN 127 ELSE -128}

\* readLoop, a pass that is the sixth since the last sample: the control average
\* is written and, during a run, a sample is handed to the statistics manager
ReadLoopSampled(temp) ==
    /\ ~aborted
    /\ temperature' = temp
    /\ IF controlRun
       THEN \E avg \in Int8OfFloat(temp), target \in Int8OfFloat(targetTemperature) :
                PointAdded(now, avg, target, pidOutput % 256)
       ELSE UNCHANGED statVars
    /\ EngineFrame

\* StatisticsManager::SetMaxSessions
SetMaxSessions(maxSessions) ==
    /\ ~aborted
    /\ UNCHANGED << sessionActive, currentSessionId, sessionStartTime, currentSessionData >>
    /\ maxRequested' = Some(maxSessions)
    /\ LET written == [statNvs EXCEPT !.max = Present(IF maxSessions = 0
                                                       THEN DEFAULT_MAX_SESSIONS
                                                       ELSE maxSessions)]
       IN  \E sessions \in SortedSessions(written) :
               statNvs' = cleanupOldSessions(written, sessions)
    /\ StatFrame

\* ---------------------------------------------------------------- specification

HeatersOfRun == << Heater(2000, TRUE, TRUE), Heater(1000, FALSE, TRUE) >>

\* the engine after Init(): idle, outputs off, no task of a brew
InitEngine ==
    /\ now = 0
    /\ temperature = 50
    /\ targetTemperature = 0
    /\ controlRun = FALSE
    /\ inOverTime = FALSE
    /\ boostStatus = "Off"
    /\ statusText = "Idle"
    /\ overrideTargetTemperature = NoValue
    /\ manualOverrideOutput = NoValue
    /\ resetPitTime = FALSE
    /\ selectedMashScheduleName = ""
    /\ boilRun = FALSE
    /\ executionSteps = << >>
    /\ notifications = << >>
    /\ currentMashStep = 0
    /\ pidOutput = 0
    /\ pidLoopTime = 2
    /\ heaters = HeatersOfRun
    /\ gpio = AllLow
    /\ ctlTasks = << >>
    /\ pidTasks = << >>
    /\ outTasks = << >>
    /\ aborted = FALSE
    /\ InitAux

Init == invertOutputs = FALSE /\ InitEngine

\* The control loop reads nothing that the PID loop or the output loop writes
\* (they write pidOutput, the heaters, resetPitTime and the pins), so the runner
\* is checked without them: with the commands that start and stop a run, the
\* clock and the read loop (Spec), with two runs in a row (SpecRace), and with
\* the override commands (SpecOverride). The PID and output loops are checked
\* with the commands that start and stop a run (SpecHeat).
CtlStep ==
    \/ \E t \in DOMAIN ctlTasks : CtlCheck(t)
    \/ \E t \in DOMAIN ctlTasks : CtlLookupFault(t)
    \/ \E t \in DOMAIN ctlTasks : CtlFinished(t)
    \/ \E t \in DOMAIN ctlTasks : CtlEval(t)
    \/ \E t \in DOMAIN ctlTasks : CtlCommit(t)

Next ==
    \/ \E name \in {"Mash", "Gone"} : CmdStart(name)
    \/ CmdStop
    \/ \E temp \in Temps : ReadLoop(temp)
    \/ Tick
    \/ CtlStep

Spec == Init /\ [][Next]_vars

NextRace ==
    \/ \E name \in {"Boil", "Gone"} : CmdStartUpTo(name, MaxStarts + 1)
    \/ CmdStop
    \/ Tick
    \/ CtlStep

SpecRace == Init /\ [][NextRace]_vars

NextOverride ==
    \/ \E name \in {"Mash", "Gone"} : CmdStart(name)
    \/ \E d \in TempData : CmdSetTemp(d)
    \/ \E d \in OutputData : CmdSetOverrideOutput(d)
    \/ \E temp \in Temps : ReadLoop(temp)
    \/ Tick
    \/ CtlStep

SpecOverride == Init /\ [][NextOverride]_vars

InitHeat == invertOutputs \in BOOLEAN /\ InitEngine

NextHeat ==
    \/ \E name \in {"", "Boil"} : CmdStart(name)
    \/ CmdStop
    \/ \E t \in DOMAIN pidTasks : PidInit(t)
    \/ \E t \in DOMAIN pidTasks : PidExit(t)
    \/ \E t \in DOMAIN pidTasks : \E o \in PidOutputs : PidCycle(t, o)
    \/ \E t \in DOMAIN pidTasks : PidSlot(t)
    \/ \E t \in DOMAIN outTasks : OutInit(t)
    \/ \E t \in DOMAIN outTasks : OutCheck(t)
    \/ \E t \in DOMAIN outTasks : OutMirror(t)

SpecHeat == InitHeat /\ [][NextHeat]_vars

\* Two runs without a schedule, one after the other: the target temperature at
\* the start makes the run a boil run or a mash run, and the second run starts
\* when the PID task and the output task of the first have ended
NextModes ==
    \/ \E value \in {63, 100} : CmdSetTemp([kind |-> "number", value |-> value])
    \/ (/\ Alive(pidTasks) = {} /\ Alive(outTasks) = {}
        /\ CmdStartUpTo("", MaxStarts + 1))
    \/ CmdStop
    \/ \E t \in DOMAIN pidTasks : PidInit(t)
    \/ \E t \in DOMAIN pidTasks : PidExit(t)
    \/ \E t \in DOMAIN pidTasks : \E o \in PidOutputs : PidCycle(t, o)
    \/ \E t \in DOMAIN pidTasks : PidSlot(t)
    \/ \E t \in DOMAIN outTasks : OutInit(t)
    \/ \E t \in DOMAIN outTasks : OutCheck(t)
    \/ \E t \in DOMAIN outTasks : OutMirror(t)

SpecModes == InitHeat /\ [][NextModes]_vars

\* A run without a schedule and the duty override, asked for with numbers inside
\* and outside 0..100
RequestedOutputs == {-20, 30, 150}

NextDuty ==
    \/ CmdStart("")
    \/ CmdStop
    \/ \E output \in RequestedOutputs :
           CmdSetOverrideOutput([kind |-> "number", value |-> output])
    \/ CmdSetOverrideOutput([kind |-> "null", value |-> 0])
    \/ \E t \in DOMAIN pidTasks : PidInit(t)
    \/ \E t \in DOMAIN pidTasks : PidExit(t)
    \/ \E t \in DOMAIN pidTasks : \E o \in PidOutputs : PidCycle(t, o)
    \/ \E t \in DOMAIN pidTasks : PidSlot(t)

SpecDuty == Init /\ [][NextDuty]_vars

\* a run, its stop and the start of a next run, with the override commands and
\* the PID tasks of both runs
NextRestart ==
    \/ CmdStartUpTo("", MaxStarts + 1)
    \/ CmdStop
    \/ CmdSetOverrideOutput([kind |-> "number", value |-> 30])
    \/ CmdSetOverrideOutput([kind |-> "null", value |-> 0])
    \/ \E t \in DOMAIN pidTasks : PidInit(t)
    \/ \E t \in DOMAIN pidTasks : PidExit(t)
    \/ \E t \in DOMAIN pidTasks : \E o \in PidOutputs : PidCycle(t, o)
    \/ \E t \in DOMAIN pidTasks : PidSlot(t)

SpecRestart == Init /\ [][NextRestart]_vars

\* the stirrer: its commands, its tasks and the clock
NextStir ==
    \/ \E stirConfig \in StirConfigs : CmdStartStir(stirConfig)
    \/ CmdStopStir
    \/ \E t \in DOMAIN stirTasks : StirCheck(t)
    \/ \E t \in DOMAIN stirTasks : StirBody(t)
    \/ Tick

SpecStir == InitHeat /\ [][NextStir]_vars

\* the output pins and all that writes them: the output loop of a run with its
\* PID loop, the stir loop, and the commands of the dispatcher
NextPins ==
    \/ CmdStart("")
    \/ CmdStop
    \/ CmdSaveHeaterSettings
    \/ CmdStartStir([max |-> 3, intervalStart |-> 0, intervalStop |-> 3])
    \/ CmdStopStir
    \/ \E t \in DOMAIN stirTasks : StirCheck(t)
    \/ \E t \in DOMAIN stirTasks : StirBody(t)
    \/ \E t \in DOMAIN pidTasks : PidInit(t)
    \/ \E t \in DOMAIN pidTasks : PidExit(t)
    \/ \E t \in DOMAIN pidTasks : PidCycle(t, 100)
    \/ \E t \in DOMAIN pidTasks : PidSlot(t)
    \/ \E t \in DOMAIN outTasks : OutInit(t)
    \/ \E t \in DOMAIN outTasks : OutCheck(t)
    \/ \E t \in DOMAIN outTasks : OutMirror(t)

SpecPins == Init /\ [][NextPins]_vars

\* a run with its statistics session, from the Start command to the Stop
\* command or to the end of the schedule, with the samples of the read loop
NextCompleted ==
    \/ \E name \in {"Gone", "Boil"} : ~controlRun /\ CmdStartRecorded(name, MaxStarts)
    \/ CmdStopRecorded
    \/ Tick
    \/ CtlStep
    \/ ReadLoopSampled(64)

SpecCompleted == Init /\ [][NextCompleted]_vars

\* the Start and Stop commands with their statistics sessions, Start commands
\* during a run included, and the samples of the read loop
NextRecorded ==
    \/ \E name \in {"Mash", "Boil"} : CmdStartRecorded(name, MaxStarts)
    \/ CmdStopRecorded
    \/ Tick
    \/ ReadLoopSampled(64)

SpecRecorded == Init /\ [][NextRecorded]_vars

\* temperatures of the working ranges of the two scales: 0..101 Celsius and
\* 32..214 Fahrenheit
ScaleTemps == {0, 32, 101, 127, 128, 150, 214}

\* a manual run at a target set by SetTemp, with the samples of the read loop
NextSamples ==
    \/ ~controlRun /\ CmdStartRecorded("", MaxStarts)
    \/ CmdStopRecorded
    \/ \E v \in ScaleTemps : CmdSetTemp([kind |-> "number", value |-> v])
    \/ \E temp \in ScaleTemps : ReadLoopSampled(temp)

SpecSamples == Init /\ [][NextSamples]_vars

\* The PID cycle as a function of its inputs: one PID task in a run, with the
\* heater set, the mode, the overrides and pidLoopTime drawn at the start.
Watts == {1000, 1550, 2000}
HeaterSets ==
    { << Heater(w, TRUE, TRUE) >> : w \in Watts }
        \cup { << Heater(w1, TRUE, TRUE), Heater(w2, m, TRUE) >> :
                   w1 \in Watts, w2 \in Watts, m \in BOOLEAN }
PidLoopTimes == {4, 15, 60}
\* the manual duty overrides a run is entered with: the ends of the range, the
\* duties of the stated examples and those where the double arithmetic of the
\* watt split rounds down
ManualDuties == {0, 1, 29, 40, 50, 57, 58, 65, 99, 100}

InitPid ==
    /\ now = 0
    /\ temperature = 50
    /\ targetTemperature = 64
    /\ controlRun = TRUE
    /\ inOverTime = FALSE
    /\ boostStatus \in {"Off", "Boost", "Rest"}
    /\ statusText = "Running"
    /\ overrideTargetTemperature = NoValue
    /\ manualOverrideOutput \in {NoValue} \cup {Some(d) : d \in ManualDuties}
    /\ resetPitTime = FALSE
    /\ selectedMashScheduleName = ""
    /\ boilRun \in BOOLEAN
    /\ executionSteps = << >>
    /\ notifications = << >>
    /\ currentMashStep = 0
    /\ pidOutput = 0
    /\ pidLoopTime \in PidLoopTimes
    /\ invertOutputs = FALSE
    /\ heaters \in HeaterSets
    /\ gpio = AllLow
    /\ ctlTasks = << >>
    /\ pidTasks = << NewPid >>
    /\ outTasks = << >>
    /\ aborted = FALSE
    /\ InitAux

NextPid ==
    \/ CmdStop
    \/ \E t \in DOMAIN pidTasks : PidInit(t)
    \/ \E t \in DOMAIN pidTasks : PidExit(t)
    \/ \E t \in DOMAIN pidTasks : \E o \in PidOutputs : PidCycle(t, o)
    \/ \E t \in DOMAIN pidTasks : PidSlot(t)

SpecPid == InitPid /\ [][NextPid]_vars

\* The schedule compiler as a function of its inputs: one start() with the
\* selected schedule being any saved schedule of one or two steps, at any time
\* and temperature the clock and the read loop have reached before it.
RampMinutes == {0, 1, 2}
HoldMinutes == {0, 1}
StepTemps == {52, 64}
SavedSteps ==
    { MashStepRec(temp, stepTime, time, extend, boost) :
          temp \in StepTemps, stepTime \in RampMinutes, time \in HoldMinutes,
          extend \in BOOLEAN, boost \in BOOLEAN }
SavedSchedules ==
    { [boil |-> FALSE, steps |-> steps, notifications |-> << [timeFromStart |-> 1] >>] :
          steps \in { << a >> : a \in SavedSteps }
                       \cup { << a, b >> : a \in SavedSteps, b \in SavedSteps } }

\* processCommand "Start" naming a saved schedule: start() and its loadSchedule()
CmdStartSaved(sched) ==
    /\ ~aborted
    /\ response' = OkResponse
    /\ savedSchedule' = sched
    /\ UNCHANGED << sensorVars, nvs, nvsOpen, lastRead, sinceReset, lastWrite, statVars,
                    plantVars >>
    /\ ~controlRun
    /\ Len(pidTasks) < MaxStarts
    /\ selectedMashScheduleName' = "Saved"
    /\ controlRun' = TRUE
    /\ inOverTime' = FALSE
    /\ boostStatus' = "Off"
    /\ overrideTargetTemperature' = NoValue
    /\ LET l == LoadSchedule(sched, now, temperature)
       IN /\ executionSteps' = l.executionSteps
          /\ notifications' = l.notifications
          /\ boilRun' = l.boilRun
    /\ currentMashStep' = 1
    /\ ctlTasks' = Append(ctlTasks, NewCtl)
    /\ pidTasks' = Append(pidTasks, NewPid)
    /\ outTasks' = Append(outTasks, NewOut)
    /\ statusText' = "Running"
    /\ UNCHANGED << now, temperature, targetTemperature, manualOverrideOutput, resetPitTime,
                    pidOutput, pidLoopTime, invertOutputs, heaters, gpio, aborted >>

NextCompile ==
    \/ \E sched \in SavedSchedules : CmdStartSaved(sched)
    \/ \E temp \in Temps : ~controlRun /\ ReadLoop(temp)
    \/ (~controlRun /\ Tick)

SpecCompile == Init /\ [][NextCompile]_vars

\* The compiler on ramps of more than one sub-step: one start of a saved
\* schedule of one or two steps whose ramps are 0, 3 or 4 minutes (1, 2 or 3
\* sub-steps)
LongRampMinutes == {0, 3, 4}
RampSteps ==
    { MashStepRec(temp, stepTime, 1, extend, boost) :
          temp \in StepTemps, stepTime \in LongRampMinutes,
          extend \in BOOLEAN, boost \in BOOLEAN }
RampSchedules ==
    { [boil |-> FALSE, steps |-> steps, notifications |-> << >>] :
          steps \in { << a >> : a \in RampSteps }
                       \cup { << a, b >> : a \in RampSteps, b \in RampSteps } }

\* the clock and the read loop run until the start
NextRamps ==
    \/ \E sched \in RampSchedules : CmdStartSaved(sched)
    \/ \E temp \in Temps : ~controlRun /\ ReadLoop(temp)
    \/ (~controlRun /\ Tick)

SpecRamps == Init /\ [][NextRamps]_vars

\* A run of a schedule of two steps that allow boost, to 50 and to 64 degrees
TwoBoosts ==
    [boil |-> FALSE,
     steps |-> << MashStepRec(50, 1, 0, FALSE, TRUE), MashStepRec(64, 1, 0, FALSE, TRUE) >>,
     notifications |-> << >>]

NextBoost ==
    \/ CmdStartSaved(TwoBoosts)
    \/ CmdStart("Gone")
    \/ CmdStop
    \/ \E temp \in Temps : ReadLoop(temp)
    \/ Tick
    \/ CtlStep

SpecBoost == Init /\ [][NextBoost]_vars

\* The sensor commands take every request of up to two entries that name
\* registered sensors; an entry's pin is one of the CS pins or null.
RequestEntries == { [id |-> id, pin |-> pin] : id \in DOMAIN sensors, pin \in CsPins \cup {NoPin} }
ShortRequests == { << >> } \cup { << a >> : a \in RequestEntries }
Requests == ShortRequests \cup { << a, b >> : a \in RequestEntries, b \in RequestEntries }

\* The registry under the four sensor commands, with every outcome of the
\* hardware (the read loop does not write the map, the ids or the types).
NextRegistry ==
    \/ \E csPin \in CsPins \cup {BadPin}, type \in {"PT100", "PT1000"},
          useForControl \in {TRUE}, initOk \in BOOLEAN :
           AddRtdSensor(csPin, type, useForControl, initOk)
    \/ \E analogPin \in AnalogPins \cup {BadPin}, useForControl \in {TRUE} :
           AddNtcSensor(analogPin, useForControl)
    \/ \E request \in Requests : SaveTempSettings(request)
    \/ \E initOk \in [1..2 -> BOOLEAN] : SaveApply(initOk)
    \/ DetectTempSensors
    \/ \E iterOk \in BOOLEAN, found \in SUBSET DsAddresses : DetectApply(iterOk, found)

SpecRegistry == Init /\ [][NextRegistry]_vars

\* The sensor commands next to the read loop, with sensors that answer.
NextSensors ==
    \/ ReadBegin
    \/ \E reading \in SensorTemps : ReadSensor(TRUE, TRUE, reading)
    \/ ReadEnd
    \/ \E csPin \in CsPins, initOk \in BOOLEAN : AddRtdSensor(csPin, "PT100", TRUE, initOk)
    \/ \E analogPin \in AnalogPins : AddNtcSensor(analogPin, TRUE)
    \/ \E request \in ShortRequests : SaveTempSettings(request)
    \/ \E initOk \in [1..2 -> BOOLEAN] : SaveApply(initOk)
    \/ DetectTempSensors
    \/ \E iterOk \in BOOLEAN, found \in SUBSET DsAddresses : DetectApply(iterOk, found)

SpecSensors == Init /\ [][NextSensors]_vars

\* The runner with a read loop that can also find no sensor to count while a run
\* is on: the average is then not a number. A run is started on a number.
NextNaN ==
    \/ \E name \in {"Mash", "Gone"} : temperature # NaN /\ CmdStart(name)
    \/ CmdStop
    \/ \E temp \in Temps : ReadLoop(temp)
    \/ (controlRun /\ ReadLoop(Average(0, 0)))
    \/ Tick
    \/ CtlStep

SpecNaN == Init /\ [][NextNaN]_vars

\* One RTD sensor next to the read loop, with every outcome of a measurement, of
\* a reinit and of a rebinding to another CS pin.
NextRtd ==
    \/ ReadBegin
    \/ \E measured \in BOOLEAN, reinitOk \in BOOLEAN :
           ReadSensor(measured, reinitOk, 64)
    \/ ReadEnd
    \/ (sensors = << >> /\ AddRtdSensor(1, "PT100", TRUE, TRUE))
    \/ \E request \in ShortRequests : Len(request) = 1 /\ SaveTempSettings(request)
    \/ \E initOk \in [1..2 -> BOOLEAN] : SaveApply(initOk)

SpecRtd == Init /\ [][NextRtd]_vars

\* The read loop over the sensors of the saved settings: a DS18B20, a PT100 and
\* an NTC sensor, each used for control or not, the DS18B20 found on the bus or
\* not, the PT100 with a device handle or not, the NTC sensor with any
\* compensation; every sensor can fail or answer in every pass.
SavedAbsolutes == {0, 2}
SavedRelatives == {0, 1, 2}
SavedSensorObjs ==
    { << [NewSensor(40, "DS18B20", ds.useForControl) EXCEPT !.connected = ds.connected],
         [NewSensor(RtdBase + 1, "PT100", rtd.useForControl) EXCEPT
              !.connected = FALSE, !.spi = rtd.spi],
         [NewSensor(NtcBase + 1, "NTC", ntc.useForControl) EXCEPT
              !.connected = FALSE,
              !.compensateAbsolute = ntc.compensateAbsolute,
              !.compensateRelative = ntc.compensateRelative] >> :
          ds \in [useForControl : BOOLEAN, connected : BOOLEAN],
          rtd \in [useForControl : BOOLEAN, spi : BOOLEAN],
          ntc \in [useForControl : BOOLEAN, compensateAbsolute : SavedAbsolutes,
                   compensateRelative : SavedRelatives] }

InitAverage ==
    /\ now = 0
    /\ temperature = 0
    /\ targetTemperature = 0
    /\ controlRun = FALSE
    /\ inOverTime = FALSE
    /\ boostStatus = "Off"
    /\ statusText = "Idle"
    /\ overrideTargetTemperature = NoValue
    /\ manualOverrideOutput = NoValue
    /\ resetPitTime = FALSE
    /\ selectedMashScheduleName = ""
    /\ boilRun = FALSE
    /\ executionSteps = << >>
    /\ notifications = << >>
    /\ currentMashStep = 0
    /\ pidOutput = 0
    /\ pidLoopTime = 2
    /\ invertOutputs = FALSE
    /\ heaters = HeatersOfRun
    /\ gpio = AllLow
    /\ ctlTasks = << >>
    /\ pidTasks = << >>
    /\ outTasks = << >>
    /\ aborted = FALSE
    /\ sensorObjs \in SavedSensorObjs
    /\ sensors = [k \in { sensorObjs[i].id : i \in DOMAIN sensorObjs } |->
                      CHOOSE i \in DOMAIN sensorObjs : sensorObjs[i].id = k]
    /\ InitRest

NextAverage ==
    \/ ReadBegin
    \/ \E measured \in BOOLEAN, reading \in SensorTemps : ReadSensor(measured, TRUE, reading)
    \/ ReadEnd

SpecAverage == InitAverage /\ [][NextAverage]_vars

\* The dispatcher with every kind of data for the override commands, and with
\* commands it does not know, next to a run.
NextDispatch ==
    \/ \E name \in {"Mash", "Gone"} : CmdStart(name)
    \/ CmdStop
    \/ \E d \in TempData : CmdSetTemp(d)
    \/ \E d \in OutputData : CmdSetOverrideOutput(d)
    \/ CmdUnknown
    \/ \E temp \in Temps : ReadLoop(temp)
    \/ Tick
    \/ CtlStep

SpecDispatch == Init /\ [][NextDispatch]_vars

\* The settings store: writes and reads of every type, the reset and the restart.
NextSettings ==
    \/ \E key \in SettingKeys, type \in ValueTypes :
           \E value \in ValuesOf(type) : SettingsWrite(key, type, value)
    \/ \E key \in SettingKeys, type \in ValueTypes, mismatchIsError \in BOOLEAN :
           \E default \in ValuesOf(type) : SettingsRead(key, type, default, mismatchIsError)
    \/ \E handleKept \in BOOLEAN : FactoryReset(handleKept)
    \/ SettingsInit

SpecSettings == Init /\ [][NextSettings]_vars

\* The settings manager with strings on both sides of the limit of nvs_set_str
NextStrings ==
    \/ \E key \in SettingKeys, value \in ValuesOf("string") \cup LongTexts :
           SettingsWrite(key, "string", value)
    \/ \E key \in SettingKeys, mismatchIsError \in BOOLEAN :
           \E default \in ValuesOf("string") :
               SettingsRead(key, "string", default, mismatchIsError)
    \/ \E key \in SettingKeys, value \in ValuesOf("vector") :
           SettingsWrite(key, "vector", value)

SpecStrings == Init /\ [][NextStrings]_vars

\* The statistics manager: sessions of at most one data point, with the clock
\* read at their start and end
NextSessions ==
    \/ \E startTime \in Times : StartSession(startTime)
    \/ (currentSessionData = << >> /\ AddDataPoint(0, 60, 64, 100))
    \/ \E endTime \in Times : EndSession(endTime)
    \/ \E maxSessions \in MaxSessionsValues : SetMaxSessions(maxSessions)

SpecSessions == Init /\ [][NextSessions]_vars

\* The statistics manager: two sessions and their data points, under the
\* default cap and under a cap of one session
NextStats ==
    \/ \E startTime \in Times : NextSessionId(statNvs) <= 2 /\ StartSession(startTime)
    \/ \E avgTemp \in Samples : AddDataPoint(0, avgTemp, 64, 100)
    \/ \E endTime \in Times : EndSession(endTime)
    \/ \E maxSessions \in {0, 1} : SetMaxSessions(maxSessions)

SpecStats == Init /\ [][NextStats]_vars

\* the sensors and their bus devices: RTD sensors are added, detected, read,
\* moved to another CS pin and removed, a DS18B20 is detected and removed
DeviceCsPins == {1, 2}

NextDevices ==
    \/ \E csPin \in DeviceCsPins, type \in {"PT100", "PT1000"}, outcome \in InitOutcomes :
          AddRtdSensorOnBus(csPin, type, outcome)
    \/ \E outcomes \in [RtdKeys -> InitOutcomes] : DetectRtdOnBus(outcomes)
    \/ \E address \in DsAddresses : DetectOneWireOnBus(address)
    \/ \E key \in RtdKeys, measured \in BOOLEAN, outcome \in InitOutcomes :
          ReadRtdTick(key, measured, outcome)
    \/ \E listed \in SUBSET DOMAIN sensors, moved \in {0} \cup RtdKeys,
          newCsPin \in DeviceCsPins, outcome \in InitOutcomes :
          SaveTempSettingsOnBus(listed, moved, newCsPin, outcome)

SpecDevices == Init /\ [][NextDevices]_vars


\* ---------------------------------------------------------------- properties

\* task t of the control loop takes its "eval" step
EvalStepOf(t) ==
    /\ t \in DOMAIN ctlTasks
    /\ ctlTasks[t].pc = "eval"
    /\ ctlTasks'[t].pc = "commit"

\* task t of the control loop takes its "commit" step and advances
AdvanceOf(t) ==
    /\ t \in DOMAIN ctlTasks
    /\ ctlTasks[t].pc = "commit"
    /\ ctlTasks'[t].pc = "check"
    /\ ctlTasks[t].gotoNextStep

\* C1: once stop() has been called and no output loop task is left, every
\* heater pin is at the inactive level, and it stays there as long as the engine
\* is stopped (no task is left to write it).
C1_HeatersOffAfterStop ==
    (~controlRun /\ Alive(outTasks) = {}) => \A h \in DOMAIN gpio : gpio[h] = gpioLow

\* C1, its case: a run was stopped while a heater's burn flag was set, and its
\* output loop task has ended.
C1_Witness ==
    /\ ~controlRun
    /\ outTasks # << >>
    /\ Alive(outTasks) = {}
    /\ \E h \in DOMAIN heaters : heaters[h].burn
    /\ \A h \in DOMAIN gpio : gpio[h] = gpioLow

\* C2: the control loop never looks up an index that is no key of the compiled
\* list: a task about to run its body either finds currentMashStep among the
\* keys or finds the list exhausted (and calls stop()), and the firmware never
\* aborts on the lookup.
C2_ExhaustedListStops ==
    /\ ~aborted
    /\ \A t \in DOMAIN ctlTasks :
          ctlTasks[t].pc = "eval" /\ controlRun
              => (HasStep(currentMashStep) \/ Len(executionSteps) < currentMashStep)

\* C3: currentMashStep changes only by start() or by one increment at a moment
\* when the clock has crossed the time of the step it leaves: no step is left
\* before its time, whatever the interleaving of Start and Stop with the loop.
C3_AdvanceOncePerCrossing ==
    [][currentMashStep' # currentMashStep =>
          \/ ~controlRun /\ controlRun'
          \/ /\ currentMashStep' = currentMashStep + 1
             /\ HasStep(currentMashStep)
             /\ StepAt(currentMashStep).time <= now]_vars

\* C4: the watt budget of a PID cycle is totalWattage * duty / 100 for every
\* heater set and duty, and 2000 W and 1000 W at 65 % give burnTime 97 and 0.
C4_BudgetIsTotalTimesDuty ==
    \A t \in DOMAIN pidTasks :
        pidTasks[t].pc = "slot" =>
            /\ pidTasks[t].outputWatt
                   = (pidTasks[t].totalWattage * pidTasks[t].outputPercent) \div 100
            /\ (/\ Len(heaters) = 2
                /\ heaters[1].watt = 2000 /\ heaters[1].enabled
                /\ heaters[2].watt = 1000 /\ heaters[2].enabled
                /\ pidTasks[t].outputPercent = 65)
                   => (heaters[1].burnTime = 97 /\ heaters[2].burnTime = 0)

\* round(burnTime / 100 * loopTime), in whole seconds
RoundedBurn(burnTime, loopTime) == (burnTime * loopTime + 50) \div 100

\* C5: in a PID cycle, after slot i - 1 the burn flag of every enabled heater is
\* true exactly when that slot is among the first round(burnTime/100 * pidLoopTime).
C5_BurnForRoundedSeconds ==
    \A t \in DOMAIN pidTasks :
        (pidTasks[t].pc = "slot" /\ pidTasks[t].i > 0 /\ controlRun) =>
            \A h \in DOMAIN heaters :
                heaters[h].enabled =>
                    (heaters[h].burn
                        <=> (pidTasks[t].i - 1 < RoundedBurn(heaters[h].burnTime, pidLoopTime)))

\* C6: the duty a PID cycle starts with is the manual duty override when set,
\* else 100 in Boost, else 0 in Rest, else the output of the PID controller.
C6_DutyPrecedence ==
    [][\A t \in DOMAIN pidTasks :
          (pidTasks[t].pc = "cycle" /\ pidTasks'[t].pc = "slot") =>
              pidTasks'[t].outputPercent =
                  (IF manualOverrideOutput.has THEN manualOverrideOutput.value
                   ELSE IF boostStatus = "Boost" THEN 100
                   ELSE IF boostStatus = "Rest" THEN 0
                   ELSE pidOutput')]_vars

\* C6, its case: a cycle started in Boost with a manual duty override set, and
\* runs at the overridden duty.
C6_Witness ==
    \E t \in DOMAIN pidTasks :
        /\ pidTasks[t].pc = "slot"
        /\ boostStatus = "Boost"
        /\ manualOverrideOutput.has
        /\ manualOverrideOutput.value = 65
        /\ pidTasks[t].outputPercent = 65

\* C7: on a tick at or after the time of the current step: an extendIfNeeded
\* step whose target is tempMargin or more away starts Overtime and does not
\* advance; in Overtime the runner stays while the target is more than
\* tempMargin away; once it is within tempMargin the runner leaves Overtime,
\* adds the excess (now - the step's time) to every later step and to every
\* notification, and advances; and an advance is one increment.
C7_OverTime ==
    [][\A t \in DOMAIN ctlTasks :
          /\ (EvalStepOf(t) /\ StepAt(currentMashStep).time <= now) =>
                LET step == StepAt(currentMashStep)
                    away == step.temperature - temperature
                    excess == now - step.time
                IN /\ (step.extendIfNeeded /\ ~inOverTime /\ away >= tempMargin) =>
                          /\ inOverTime'
                          /\ ~ctlTasks'[t].gotoNextStep
                          /\ executionSteps' = executionSteps
                   /\ (inOverTime /\ away > tempMargin) =>
                          /\ inOverTime'
                          /\ ~ctlTasks'[t].gotoNextStep
                          /\ executionSteps' = executionSteps
                   /\ (inOverTime /\ away <= tempMargin) =>
                          /\ ~inOverTime'
                          /\ ctlTasks'[t].gotoNextStep
                          /\ DOMAIN executionSteps' = DOMAIN executionSteps
                          /\ \A p \in DOMAIN executionSteps :
                                p > currentMashStep + 1 =>
                                    executionSteps'[p].time = executionSteps[p].time + excess
                          /\ DOMAIN notifications' = DOMAIN notifications
                          /\ \A n \in DOMAIN notifications :
                                notifications'[n].timePoint
                                    = notifications[n].timePoint + excess
          /\ AdvanceOf(t) => currentMashStep' = currentMashStep + 1]_vars

\* C7, its case: the runner has just left an Overtime that lasted beyond the
\* step's planned time and is about to advance; the hold point after the step
\* and the notification have moved by the excess.
C7_Witness ==
    \E t \in DOMAIN ctlTasks :
        /\ ctlTasks[t].pc = "commit"
        /\ ctlTasks[t].gotoNextStep
        /\ controlRun /\ ~inOverTime
        /\ currentMashStep = 1
        /\ Len(executionSteps) = 3
        /\ StepAt(1).extendIfNeeded
        /\ StepAt(1).time > StepAt(0).time + 60
        /\ StepAt(1).time = now
        /\ StepAt(2).time = StepAt(1).time + 60
        /\ notifications[1].timePoint = StepAt(1).time

\* C8: while the run goes on and the step stays the same, boostStatus changes
\* only on a tick of a step with allowBoost, and only Off -> Boost below the
\* threshold, Boost -> Rest at or above it, and Rest -> Off when the temperature
\* is lower than at the previous tick, which raises resetPitTime; every advance
\* sets boostStatus to Off.
C8_BoostTransitions ==
    [][/\ (boostStatus' # boostStatus /\ controlRun /\ controlRun'
              /\ currentMashStep' = currentMashStep) =>
             \E t \in DOMAIN ctlTasks :
                /\ EvalStepOf(t)
                /\ StepAt(currentMashStep).allowBoost
                /\ \/ /\ boostStatus = "Off" /\ boostStatus' = "Boost"
                      /\ temperature < ctlTasks'[t].boostUntil
                   \/ /\ boostStatus = "Boost" /\ boostStatus' = "Rest"
                      /\ temperature >= ctlTasks'[t].boostUntil
                   \/ /\ boostStatus = "Rest" /\ boostStatus' = "Off"
                      /\ temperature < ctlTasks[t].prevTemperature
                      /\ resetPitTime'
       /\ \A t \in DOMAIN ctlTasks : AdvanceOf(t) => boostStatus' = "Off"]_vars

\* C8, its case: in the first step of a run (a step with allowBoost) the boost
\* went through Boost and Rest and ended on a falling temperature, which raised
\* resetPitTime.
C8_Witness ==
    /\ controlRun
    /\ currentMashStep = 1
    /\ HasStep(1)
    /\ StepAt(1).allowBoost
    /\ boostStatus = "Off"
    /\ resetPitTime
    /\ \E t \in DOMAIN ctlTasks :
          /\ ctlTasks[t].pc = "commit"
          /\ ~ctlTasks[t].gotoNextStep
          /\ temperature < ctlTasks[t].prevTemperature
          /\ temperature >= ctlTasks[t].boostUntil

\* C9: a tick that decides to advance, the one that ends an Overtime included,
\* leaves the manual target override unset.
C9_AdvanceClearsTargetOverride ==
    [][\A t \in DOMAIN ctlTasks :
          (EvalStepOf(t) /\ ctlTasks'[t].gotoNextStep) =>
              ~overrideTargetTemperature'.has]_vars

\* C10: a tick that decides to advance leaves the manual duty override unset.
C10_AdvanceClearsDutyOverride ==
    [][\A t \in DOMAIN ctlTasks :
          (EvalStepOf(t) /\ ctlTasks'[t].gotoNextStep) =>
              ~manualOverrideOutput'.has]_vars

\* C11: a notification becomes done only on a tick of the control loop on which
\* inOverTime is false and the clock the tick read is later than the
\* notification's time; within a run a done notification stays done (it fires
\* at most once), and nothing fires while the runner is in Overtime.
C11_NotificationFiresOnce ==
    [][(DOMAIN notifications' = DOMAIN notifications /\ ~(~controlRun /\ controlRun')) =>
          \A n \in DOMAIN notifications :
              /\ notifications[n].done => notifications'[n].done
              /\ (~notifications[n].done /\ notifications'[n].done) =>
                    /\ ~inOverTime
                    /\ \E t \in DOMAIN ctlTasks :
                          /\ ctlTasks[t].pc = "commit" /\ ctlTasks'[t].pc = "check"
                          /\ ctlTasks[t].now > notifications[n].timePoint
                          /\ ctlTasks[t].now <= now]_vars

\* C11, its case: a run went through an Overtime that moved the notification by
\* the excess, and the notification fired after its new time.
C11_Witness ==
    /\ controlRun
    /\ Len(notifications) = 1
    /\ notifications[1].done
    /\ notifications[1].timePoint = 120
    /\ now = 180

\* C12: the execution steps compiled by loadSchedule have strictly increasing
\* times in index order, for every schedule (hold minutes of 0 included).
C12_StepTimesIncrease ==
    \A i \in DOMAIN executionSteps :
        i > 1 => executionSteps[i].time > executionSteps[i - 1].time

\* C13: whenever a step of the dispatcher inserts, removes or re-keys an entry
\* of the sensor map, the latch skipTempLoop is set and the read loop is not
\* inside its pass over the map.
C13_MutationUnderLatch ==
    [][(disp' # disp /\ sensors' # sensors) =>
          (skipTempLoop /\ readTask.pc # "iter")]_vars

\* C14: while the control average is not a number, a tick of the control loop on
\* an extendIfNeeded step does not advance past the step and does not leave
\* Overtime.
C14_NaNGates ==
    [][\A t \in DOMAIN ctlTasks :
          (EvalStepOf(t) /\ temperature = NaN /\ StepAt(currentMashStep).extendIfNeeded) =>
              /\ ~ctlTasks'[t].gotoNextStep
              /\ inOverTime => inOverTime']_vars

\* the registry is well keyed: every key is the id of its sensor, an RTD id is
\* RtdBase + a CS pin, an NTC id is NtcBase + an analog pin, and no sensor is
\* entered under two keys
WellKeyed ==
    /\ \A k \in DOMAIN sensors :
          LET sensor == sensorObjs[sensors[k]]
          IN  /\ sensor.id = k
              /\ IsRtd(sensor) => k - RtdBase \in CsPins
              /\ sensor.sensorType = "NTC" => k - NtcBase \in AnalogPins
    /\ \A k1, k2 \in DOMAIN sensors : sensors[k1] = sensors[k2] => k1 = k2

\* the request entries that ask for a pin another registered sensor has
AsksUsedPin(e) ==
    /\ e.id \in DOMAIN sensors
    /\ e.pin # NoPin
    /\ LET sensor == sensorObjs[sensors[e.id]]
           base == IF IsRtd(sensor) THEN RtdBase ELSE NtcBase
       IN  /\ sensor.sensorType # "DS18B20"
           /\ base + e.pin # e.id
           /\ base + e.pin \in DOMAIN sensors

\* C15: whenever the dispatcher is between commands the registry is well keyed,
\* and a save whose only entry for a sensor asks for a pin that another
\* registered sensor has leaves that sensor's id as it was.
C15_RegistryKeys ==
    /\ [](disp.pc = "idle" => WellKeyed)
    /\ [][(disp.pc = "saveWait" /\ disp'.pc = "idle") =>
             \A i \in DOMAIN disp.request :
                 (/\ AsksUsedPin(disp.request[i])
                  /\ \A j \in DOMAIN disp.request :
                        disp.request[j].id = disp.request[i].id => j = i) =>
                     sensorObjs'[sensors[disp.request[i].id]].id = disp.request[i].id]_vars

\* the read loop visits the entry of key k
ReadOf(k) ==
    /\ k \in DOMAIN sensors
    /\ readTask.pc = "iter"
    /\ readTask'.pc = "iter"
    /\ readTask.last # k
    /\ readTask'.last = k

\* the failures in a row after which a reinit is due, by the state of the handle
RtdThreshold(sensor) ==
    IF sensor.spi THEN ReinitAfterFailures ELSE ReinitAfterNullHandle

\* C16 as stated: the counter of an RTD sensor never exceeds the threshold of
\* its handle; a failed read attempts the reinit, and resets the counter,
\* exactly when the counter reaches that threshold, and counts otherwise; a read
\* that succeeds sets connected and resets the counter.
C16_ReinitAtThreshold ==
    /\ [](\A r \in DOMAIN sensorObjs :
             IsRtd(sensorObjs[r]) =>
                 sensorObjs[r].consecutiveFailures <= RtdThreshold(sensorObjs[r]))
    /\ [][\A k \in DOMAIN sensors :
             (ReadOf(k) /\ IsRtd(sensorObjs[sensors[k]])) =>
                 LET before == sensorObjs[sensors[k]]
                     after == sensorObjs'[sensors[k]]
                 IN  IF after.connected
                     THEN after.consecutiveFailures = 0
                     ELSE after.consecutiveFailures =
                              IF before.consecutiveFailures + 1 = RtdThreshold(before)
                              THEN 0
                              ELSE before.consecutiveFailures + 1]_vars

\* C16, amended: the counter of an RTD sensor stays below ReinitAfterFailures; a
\* failed read attempts the reinit, and resets the counter whatever the reinit
\* gives, exactly when the counter reaches or is beyond the threshold of the
\* handle (it can be beyond when the handle became null with failures already
\* counted), and counts otherwise; a read that succeeds sets connected and
\* resets the counter.
C16_ReinitFromThreshold ==
    /\ [](\A r \in DOMAIN sensorObjs :
             IsRtd(sensorObjs[r]) =>
                 sensorObjs[r].consecutiveFailures < ReinitAfterFailures)
    /\ [][\A k \in DOMAIN sensors :
             (ReadOf(k) /\ IsRtd(sensorObjs[sensors[k]])) =>
                 LET before == sensorObjs[sensors[k]]
                     after == sensorObjs'[sensors[k]]
                 IN  IF after.connected
                     THEN after.consecutiveFailures = 0
                     ELSE after.consecutiveFailures =
                              IF before.consecutiveFailures + 1 >= RtdThreshold(before)
                              THEN 0
                              ELSE before.consecutiveFailures + 1]_vars

\* C16, its case: the read loop has just visited an RTD sensor that has a
\* handle, is disconnected and has its counter at 0: the visit crossed the
\* threshold and attempted the reinit.
C16_Witness ==
    /\ readTask.pc = "iter"
    /\ readTask.last \in DOMAIN sensors
    /\ LET sensor == sensorObjs[sensors[readTask.last]]
       IN  /\ IsRtd(sensor)
           /\ sensor.spi
           /\ ~sensor.connected
           /\ sensor.consecutiveFailures = 0

\* the engine state that start() can write, and the tasks of a brew
RunState ==
    << controlRun, inOverTime, boostStatus, statusText, overrideTargetTemperature,
       executionSteps, notifications, boilRun, currentMashStep, targetTemperature,
       manualOverrideOutput, resetPitTime, pidOutput, ctlTasks, pidTasks, outTasks >>

\* C17: a Start command whose start() finds the engine running changes no
\* engine state and creates no task; a Stop command whose stop() finds the
\* engine not running leaves controlRun, boostStatus, inOverTime and the status
\* text as they are.
C17_StartStopIdempotent ==
    [][/\ (controlRun /\ \E name \in {"Mash", "Gone"} : CmdStart(name)) =>
              UNCHANGED RunState
       /\ (~controlRun /\ CmdStop) =>
              UNCHANGED << controlRun, boostStatus, inOverTime, statusText >>]_vars

\* everything but the response
EngineState ==
    << now, temperature, engineVars, pidLoopTime, invertOutputs, heaters, gpio,
       ctlTasks, pidTasks, outTasks, aborted, sensorVars, settingsVars >>

\* C18: a command that is not one of the enumerated commands gets success =
\* false with the message "Unknown command", and changes no engine state.
C18_UnknownCommandRejected ==
    [][CmdUnknown =>
          /\ response' = Failure("Unknown command")
          /\ UNCHANGED EngineState]_vars

\* C19: a SetTemp or SetOverrideOutput request whose field is neither null nor a
\* number gets success = false with a message, and changes no engine state.
C19_IllTypedRejected ==
    [][(\/ \E d \in TempData : d.kind = "other" /\ CmdSetTemp(d)
        \/ \E d \in OutputData : d.kind = "other" /\ CmdSetOverrideOutput(d)) =>
          /\ ~response'.success
          /\ response'.message # ""
          /\ UNCHANGED EngineState]_vars

\* C20: after FactoryReset, with nothing written by a caller since, a Read with
\* default D returns D, for every value type.
C20_ReadAfterResetIsDefault ==
    (sinceReset /\ lastRead.type # "none") => lastRead.result = lastRead.default

\* C21: a string Read that follows the Write of a string under the same key
\* returns the value written, whatever its length
C21_StringRoundTrip ==
    [][\A key \in SettingKeys, mismatchIsError \in BOOLEAN :
           \A default \in ValuesOf("string") :
               (/\ lastWrite.key = key
                /\ lastWrite.type = "string"
                /\ SettingsRead(key, "string", default, mismatchIsError))
               => lastRead'.result = lastWrite.value]_vars

\* the sessions an EndSession or a SetMaxSessions step leaves out of the list:
\* those listed before it, and the one it ends, that are not listed after it
Evicted ==
    (Listed(statNvs) \cup (IF sessionActive /\ ~sessionActive'
                           THEN {currentSessionId} ELSE {}))
        \ Listed(statNvs')

StartedAt(id) ==
    IF id \in Listed(statNvs) THEN StartTimeOf(statNvs, id) ELSE sessionStartTime

\* C22: the session list is never longer than the configured maximum, which is
\* 10 by default and when 0 is requested, the stored count is the length of
\* the list, and a session that is evicted started no later than any session
\* that is kept
C22_SessionCap ==
    /\ [](/\ Cardinality(Listed(statNvs)) <= GetMaxSessions(statNvs)
          /\ SessionCount(statNvs) = Cardinality(Listed(statNvs))
          /\ GetMaxSessions(statNvs) =
                 IF maxRequested.has /\ maxRequested.value # 0
                 THEN maxRequested.value ELSE 10)
    /\ [][\A gone \in Evicted : \A kept \in Listed(statNvs') :
             StartedAt(gone) <= StartTimeOf(statNvs', kept)]_vars

\* a session was evicted while a session that started later was kept
C22_Witness ==
    /\ Cardinality(Listed(statNvs)) = GetMaxSessions(statNvs)
    /\ \E id \in 1..(NextSessionId(statNvs) - 1) :
           /\ sessionActive => id # currentSessionId
           /\ id \notin Listed(statNvs)
           /\ \E kept \in Listed(statNvs) : kept < id

\* the step ends the session that was active before it
SessionEnds == sessionActive /\ (~sessionActive' \/ currentSessionId' # currentSessionId)

RECURSIVE Total(_)
Total(data) == IF data = << >> THEN 0 ELSE Head(data).avgTemp + Total(Tail(data))

Pushed(data) == { data[i].avgTemp : i \in 1..Len(data) }

\* the record stored under id tells of the data points pushed, and so does
\* the data stored under id
Tells(store, id, data) ==
    /\ Len(VecValue(store.session[id])) >= SizeofSession
    /\ LET session == SessionOf(store.session[id].value)
       IN  /\ session.sessionId = id
           /\ session.completed
           /\ session.dataPoints = Len(data)
           /\ session.avgTemperature.size # 0
           /\ session.avgTemperature.sum * (IF data = << >> THEN 1 ELSE Len(data))
                  = Total(data) * session.avgTemperature.size
           /\ IF data = << >>
              THEN session.minTemperature = 0 /\ session.maxTemperature = 0
              ELSE /\ session.minTemperature \in Pushed(data)
                   /\ session.maxTemperature \in Pushed(data)
                   /\ \A v \in Pushed(data) :
                          session.minTemperature <= v /\ v <= session.maxTemperature
    /\ PointsOf(VecValue(store.data[id])) = data

C24_UnusedHeaterOff ==
    controlRun =>
        \A h \in DOMAIN heaters :
            ~EnabledFor(heaters[h], boilRun) => gpio[h] = gpioLow

\* C25: at most one PID task, one output task and one control task are alive
C25_OneTaskOfEach ==
    /\ Cardinality(Alive(pidTasks)) <= 1
    /\ Cardinality(Alive(outTasks)) <= 1
    /\ Cardinality(Alive(ctlTasks)) <= 1

\* C26: the duty a PID task distributes in a cycle is within 0..100
C26_DutyInRange ==
    \A t \in DOMAIN pidTasks : pidTasks[t].outputPercent \in 0..100

\* C27: on every tick of a step with allowBoost, the threshold the temperature
\* is compared with is the target of that step times boostModeUntil / 100
C27_BoostThresholdOfStep ==
    [][\A t \in DOMAIN ctlTasks :
          (EvalStepOf(t) /\ HasStep(currentMashStep) /\ StepAt(currentMashStep).allowBoost)
          => ctlTasks'[t].boostUntil * 100
                 = StepAt(currentMashStep).temperature * boostModeUntil]_vars

\* C28: a mash step with ramp minutes or extendStepTimeIfNeeded is planned as
\* k = max(1, rampSeconds \div stepInterval - 1) sub-steps (k = 1 with boost, a
\* zero ramp counts as 1 minute); each sub-step in the list is sub-step j of
\* the plan for some j, at the previous time + j * stepInterval with the
\* temperature previous + j * (target - previous) / k; the last one is sub-step
\* k, at the step's target, and carries extendIfNeeded iff the mash step has
\* it; one hold point at ramp end + hold minutes at the target follows it.
Max(a, b) == IF a >= b THEN a ELSE b
Ramped(step) == step.stepTime > 0 \/ step.extendStepTimeIfNeeded
RampMinutesOf(step) == IF step.stepTime = 0 THEN 1 ELSE step.stepTime
PlannedSubSteps(step) ==
    IF step.allowBoost /\ boostModeUntil > 0
    THEN 1
    ELSE Max(1, ((RampMinutesOf(step) * 60) \div stepInterval) - 1)
\* execStep is sub-step j of k of the ramp of step that begins at prevTime, prevTemp
IsSubStep(execStep, j, k, step, prevTime, prevTemp) ==
    /\ execStep.time = prevTime + j * stepInterval
    /\ (execStep.temperature * execStep.of + execStep.part) * k
           = (prevTemp * k + j * (step.temperature - prevTemp)) * execStep.of
    /\ execStep.extendIfNeeded = (j = k /\ step.extendStepTimeIfNeeded)
\* the execution steps first + 1 .. hold of the list are the ramp and the hold
\* of step, the step before it having ended with the execution step first
RampAsPlanned(step, first, hold, prevTemp) ==
    LET k == PlannedSubSteps(step)
        prevTime == executionSteps[first].time
        last == executionSteps[hold - 1]
    IN /\ \A p \in (first + 1)..(hold - 1) :
              \E j \in 1..k : IsSubStep(executionSteps[p], j, k, step, prevTime, prevTemp)
       /\ \A p \in (first + 1)..(hold - 2) :
              executionSteps[p].time < executionSteps[p + 1].time
       /\ IsSubStep(last, k, k, step, prevTime, prevTemp)
       /\ last.temperature = step.temperature /\ last.part = 0
       /\ last.extendIfNeeded = step.extendStepTimeIfNeeded
       /\ executionSteps[hold] =
              ExecStep(prevTime + RampMinutesOf(step) * 60 + step.time * 60,
                       step.temperature, FALSE, FALSE)
\* the list from the execution step first on is steps i, i + 1, ... of the saved
\* schedule, each a ramp as planned or a direct step, each with its hold point
RECURSIVE PlannedFrom(_, _)
PlannedFrom(i, first) ==
    IF i > Len(savedSchedule.steps)
    THEN first = Len(executionSteps)
    ELSE LET step == savedSchedule.steps[i]
             prevTemp == IF i = 1 THEN executionSteps[1].temperature
                         ELSE savedSchedule.steps[i - 1].temperature
         IN \E hold \in (first + 2)..Len(executionSteps) :
                /\ IF Ramped(step)
                   THEN RampAsPlanned(step, first, hold, prevTemp)
                   ELSE hold = first + 2
                /\ PlannedFrom(i + 1, hold)
C28_RampAsPlanned ==
    (controlRun /\ selectedMashScheduleName = "Saved") => PlannedFrom(1, 1)

\* a run of two steps: a ramp of three sub-steps with an intermediate sub-step
\* between whole degrees in the list, then a zero ramp with extend
C28_Witness ==
    /\ controlRun /\ selectedMashScheduleName = "Saved"
    /\ Len(savedSchedule.steps) = 2
    /\ ~savedSchedule.steps[1].allowBoost /\ PlannedSubSteps(savedSchedule.steps[1]) = 3
    /\ savedSchedule.steps[1].extendStepTimeIfNeeded
    /\ \E p \in DOMAIN executionSteps : executionSteps[p].part # 0
    /\ savedSchedule.steps[2].stepTime = 0 /\ savedSchedule.steps[2].extendStepTimeIfNeeded
    /\ ~savedSchedule.steps[2].allowBoost

\* C29: every intermediate sub-step of a ramp in the list differs by more than
\* 1 degree from the execution step before it in the list, the first sub-step
\* of a ramp from the anchor or the hold point of the step before
RECURSIVE IntermediatesFrom(_, _)
IntermediatesFrom(i, first) ==
    IF i > Len(savedSchedule.steps)
    THEN {}
    ELSE LET step == savedSchedule.steps[i]
             prevTemp == IF i = 1 THEN executionSteps[1].temperature
                         ELSE savedSchedule.steps[i - 1].temperature
             hold == CHOOSE h \in (first + 2)..Len(executionSteps) :
                         /\ IF Ramped(step)
                            THEN RampAsPlanned(step, first, h, prevTemp)
                            ELSE h = first + 2
                         /\ PlannedFrom(i + 1, h)
         IN (IF Ramped(step) THEN (first + 1)..(hold - 2) ELSE {})
                \cup IntermediatesFrom(i + 1, hold)
\* the temperatures of execution steps a and b differ by more than 1 degree
MoreThanOneApart(a, b) ==
    Abs((a.temperature * a.of + a.part) * b.of - (b.temperature * b.of + b.part) * a.of)
        > 1 * a.of * b.of
C29_IntermediateFarFromPrevious ==
    (controlRun /\ selectedMashScheduleName = "Saved") =>
        \A p \in IntermediatesFrom(1, 1) :
            MoreThanOneApart(executionSteps[p], executionSteps[p - 1])

\* C30: the control temperature the read loop has written is the mean of the
\* compensated readings of exactly the sensors of the pass that had useForControl
\* set and were measured; no other sensor of the pass, and no sentinel, is in
\* the sum or in the count
Counted(seen) == { i \in DOMAIN seen : seen[i].useForControl /\ seen[i].measured }
CompensatedReading(e) ==
    (e.reading + e.compensateAbsolute)
        * (IF e.compensateRelative = 0 THEN 1 ELSE e.compensateRelative)
RECURSIVE SumOfCounted(_, _)
SumOfCounted(seen, i) ==
    IF i > Len(seen) THEN 0
    ELSE (IF i \in Counted(seen) THEN CompensatedReading(seen[i]) ELSE 0)
             + SumOfCounted(seen, i + 1)
C30_ControlAverage ==
    LET seen == readTask.seen
        n == Cardinality(Counted(seen))
    IN /\ readTask.sum = SumOfCounted(seen, 1)
       /\ readTask.nrOfSensors = n
       /\ (readTask.pc = "delay" /\ n > 0) =>
              /\ n * temperature <= SumOfCounted(seen, 1)
              /\ SumOfCounted(seen, 1) < n * (temperature + 1)

\* a pass was averaged in which a compensated sensor and another sensor counted,
\* a sensor used for control failed and has the sentinel, and the readings differ
C30_Witness ==
    /\ readTask.pc = "delay"
    /\ Cardinality(Counted(readTask.seen)) = 2
    /\ \E i, j \in Counted(readTask.seen) : readTask.seen[i].reading # readTask.seen[j].reading
    /\ \E i \in Counted(readTask.seen) :
           readTask.seen[i].compensateAbsolute # 0 /\ readTask.seen[i].compensateRelative = 2
    /\ \E i \in DOMAIN readTask.seen :
           /\ readTask.seen[i].useForControl /\ ~readTask.seen[i].measured
           /\ sensorObjs[sensors[readTask.seen[i].key]].lastTemp = Disconnected

\* C36: every run begins without a manual duty override: on the step that
\* starts a run after an earlier one, no override of a SetOverrideOutput of or
\* after the earlier run is left in place for the PID loop to use
C36_RunStartsWithoutDutyOverride ==
    [][(~controlRun /\ controlRun' /\ Len(pidTasks) > 0)
           => manualOverrideOutput' = NoValue]_vars


\* C35: once stop() has returned and the control task of the run has exited,
\* boostStatus is Off and inOverTime is false, however the stop() of the
\* dispatcher was interleaved with the tick the control loop was in
C35_StoppedMeansOffAndInTime ==
    (/\ ~controlRun
     /\ Len(ctlTasks) > 0
     /\ \A t \in DOMAIN ctlTasks : ctlTasks[t].pc = "done")
        => (boostStatus = "Off" /\ ~inOverTime)

\* C33: when the control loop ends a run because the schedule is complete, the
\* session of the run is ended too: no session is active while controlRun is
\* false
C33_NoSessionWithoutRun ==
    ~controlRun => ~sessionActive

\* C34: a Start command received during a run leaves the brew as it is: the
\* session keeps its id and its samples, no record is written, and the selected
\* schedule name stays
C34_StartDuringRunChangesNothing ==
    [][(controlRun /\ \E name \in {"Mash", "Boil"} : CmdStartRecorded(name, MaxStarts))
           => UNCHANGED << currentSessionId, currentSessionData, statNvs,
                           selectedMashScheduleName >>]_vars

\* C40: every sample the read loop appends stores the integer part of the
\* control average and of the target temperature, for every temperature of the
\* working range of either scale
C40_SampleStoresTemperatures ==
    [][Len(currentSessionData') = Len(currentSessionData) + 1 =>
           LET sample == currentSessionData'[Len(currentSessionData')]
           IN  /\ sample.avgTemp = temperature'
               /\ sample.targetTemp = targetTemperature']_vars

\* the steps of the dispatcher in the specification of the pins
DispatcherStep ==
    \/ CmdStart("")
    \/ CmdStop
    \/ CmdSaveHeaterSettings
    \/ CmdStartStir([max |-> 3, intervalStart |-> 0, intervalStop |-> 3])
    \/ CmdStopStir

\* C32: every output pin has one writer: the level of a heater pin changes only
\* in a step of an output task and the level of the stir pin only in a step of
\* a stir task; no step of the dispatcher changes the level of a pin
C32_OneWriterPerPin ==
    [][/\ gpio' # gpio =>
              \E t \in DOMAIN outTasks : OutInit(t) \/ OutCheck(t) \/ OutMirror(t)
       /\ stirPin' # stirPin => \E t \in DOMAIN stirTasks : StirBody(t)
       /\ DispatcherStep => (gpio' = gpio /\ stirPin' = stirPin)]_vars

\* C38: once StopStir has returned and every stir task has ended, the stir pin
\* is at its inactive level
C38_StirPinOffAfterStop ==
    (/\ ~stir.stirRun
     /\ Len(stirTasks) > 0
     /\ \A t \in DOMAIN stirTasks : stirTasks[t].pc = "done")
        => stirPin = gpioLow

\* C39: whenever an RTD sensor of the registry holds a device handle, the handle
\* carries the resistances of the sensor's type: nominal 100 and reference 430
\* for a PT100, nominal 1000 and reference 4300 for a PT1000.
C39_HandleHasResistancesOfType ==
    \A k \in RtdKeys :
        LET sensor == sensorObjs[sensors[k]]
        IN  sensor.max31865Handle.spi # 0 =>
               sensor.max31865Handle = TypedHandle(sensor.max31865Handle, sensor.sensorType)

\* C37: the read loop never measures an RTD sensor through an SPI device that
\* has been removed from the bus.
C37_NoMeasureThroughRemovedDevice ==
    \A d \in DOMAIN devices : ~devices[d].measuredAfterRelease

\* the device a sensor holds: the SPI device of an RTD sensor, the 1-Wire
\* device of a DS18B20 (0 for none)
DeviceOf(sensor) ==
    IF IsRtd(sensor) THEN sensor.max31865Handle.spi ELSE sensor.ds18b20Handle

\* C31: when saveTempSensorSettings removes a sensor that holds a bus device,
\* that device has been released exactly once when the call returns.
C31_RemovedSensorReleasedOnce ==
    [][\A k \in DOMAIN sensors :
          (/\ response' = OkResponse
           /\ sensors[k] \notin { sensors'[x] : x \in DOMAIN sensors' }
           /\ DeviceOf(sensorObjs[sensors[k]]) # 0)
          => devices'[DeviceOf(sensorObjs[sensors[k]])].releases = 1]_vars

====
